---- MODULE Spec2Model ----
(***************************************************************************)
(* Model of the lily logging library: the Logger node (level filtering,    *)
(* entry construction, fan-out dispatch to transports with isolated        *)
(* failure handling), the global level registry, child() and               *)
(* withMetadata() derivation, the transport list operations, the           *)
(* environment overrides read at construction, the text the default        *)
(* console transport writes (ConsoleFormatter and its static scope colour   *)
(* map), JsonFormatter, FileTransport with its rotation, and the           *)
(* construction of the browser transports.                                 *)
(***************************************************************************)
EXTENDS Integers, Sequences, FiniteSets, TLC

VARIABLES
    globalLevel,   \* Logger.globalLevel (static)
    env,           \* the environment variables getEnv reads
    loggers,       \* the Logger instances created so far, in creation order
    arrays,        \* the arrays allocated for this.transports; a logger holds a reference
    origin,        \* history: how each Logger instance was created
    calls,         \* history: the logging calls made so far, in issuance order
    promises,      \* the promises returned by transports, with their .catch handler
    diag,          \* what was written to console.error by Logger.log
    mutations,     \* number of addTransport/removeTransport/clearTransports calls made
    lastOp,        \* history: the most recent of these calls and the list it found
    writes,        \* number of writes made from outside to scope arrays and metadata mappings
    scopeColourMap,    \* ConsoleFormatter.scopeColourMap (static)
    console,           \* what the ConsoleTransports handed to console.log, in order
    fileTransport,     \* the options of the FileTransport instance, once constructed
    files,             \* the file system: the files that exist and their lines
    window,            \* whether the host defines window
    browserTransports, \* the browser transport objects constructed
    thrown,            \* the errors constructors threw to their caller
    storage,           \* localStorage and sessionStorage: the keys set and their values
    warned,            \* what was written to console.warn
    stored,            \* history: the log() calls made on BrowserStorageTransports
    downloads,         \* the downloads BrowserFileTransports triggered, in order
    buffered,          \* history: per BrowserFileTransport, its log() calls
    lastFormat,        \* the most recent direct call of a formatter's format
    seen               \* history: the scope names so formatted, in order of first use

\* the state of the host outside the Logger instances
browserVars == <<storage, warned, stored, downloads, buffered>>
formatVars == <<lastFormat, seen>>
hostVars ==
    <<scopeColourMap, console, fileTransport, files, window, browserTransports, thrown,
      browserVars, formatVars>>

vars ==
    <<globalLevel, env, loggers, arrays, origin, calls, promises, diag, mutations, lastOp,
      writes, hostVars>>

----------------------------------------------------------------------------
(* Bounds of the model *)

\* transport list scenario: loggers created, list operations made
ListLoggers == 3
ListMutations == 3

\* derivation scenario: loggers created
DeriveLoggers == 3

\* logging calls made in one behaviour
MaxCalls == 1

\* ordering scenario: logging calls made in one behaviour
OrderCalls == 2

\* aliasing scenario: constructions, logging calls and writes made from
\* outside to scope arrays, metadata mappings and entries
AliasOps == 5

\* registry scenario: constructions, list operations and logging calls made
RegistryOps == 4

\* file scenario: logging calls made
FileCalls == 4

\* re-entrancy scenario: logging calls made
ReentrantCalls == 2
StorageTransports == 1
StorageCalls == 3
BufferCalls == 101
BufferDownloads == 1
PaletteNames == 14

\* agreement scenario: loggers created
AgreeLoggers == 2

\* override scenario: loggers created
OverrideLoggers == 2

\* host scenario: constructions of loggers and of browser transports, list
\* operations and logging calls made
HostOps == 5

\* formatting scenario: scope names formatted with colour
FormatNames == 13

\* the longest transport list addTransport builds
MaxTransports == 3

----------------------------------------------------------------------------
(* enum LogLevel *)

TRACE == 0
DEBUG == 1
INFO == 2
WARN == 3
ERROR == 4
FATAL == 5
OFF == 6

LogLevel == {TRACE, DEBUG, INFO, WARN, ERROR, FATAL, OFF}

\* the levels of the six severity methods trace() .. fatal()
Severities == {TRACE, DEBUG, INFO, WARN, ERROR, FATAL}

\* the name -> value half of the compiled enum object
LogLevelByName ==
    [n \in {"TRACE", "DEBUG", "INFO", "WARN", "ERROR", "FATAL", "OFF"} |->
        CASE n = "TRACE" -> TRACE
          [] n = "DEBUG" -> DEBUG
          [] n = "INFO" -> INFO
          [] n = "WARN" -> WARN
          [] n = "ERROR" -> ERROR
          [] n = "FATAL" -> FATAL
          [] n = "OFF" -> OFF]

----------------------------------------------------------------------------
(* JavaScript values *)

\* the value undefined, where a level is expected
Undefined == -1

\* an object without own properties: {}
EmptyObject == <<>>

\* the value of a metadata slot: undefined, or a mapping
MetaUndefined == [def |-> FALSE, map |-> EmptyObject]
Meta(m) == [def |-> TRUE, map |-> m]

\* { ...a, ...b } on two objects
Spread(a, b) ==
    [k \in (DOMAIN a) \cup (DOMAIN b) |-> IF k \in DOMAIN b THEN b[k] ELSE a[k]]

\* { ...m } where m may be undefined (spreading undefined adds nothing)
SpreadMeta(m) == IF m.def THEN m.map ELSE EmptyObject

\* o.metadata on an options object
GetMetadata(o) == IF "metadata" \in DOMAIN o THEN o.metadata ELSE MetaUndefined

\* the scope argument of the constructor and of child(): string | string[]
ScopeStr(s) == [isArray |-> FALSE, str |-> s, arr |-> <<>>]
ScopeArr(a) == [isArray |-> TRUE, str |-> "", arr |-> a]

----------------------------------------------------------------------------
(* The environment *)

\* getEnv(key) returned undefined
NoEnv == "<undefined>"

\* String.prototype.toUpperCase on the strings of the model
ToUpperCase(s) ==
    CASE s = "debug" -> "DEBUG"
      [] s = "Info" -> "INFO"
      [] s = "warn" -> "WARN"
      [] s = "Error" -> "ERROR"
      [] s = "off" -> "OFF"
      [] s = "verbose" -> "VERBOSE"
      [] OTHER -> s

GetEnv(key) == env[key]

----------------------------------------------------------------------------
(* Transports *)

\* user transports: instances of classes implementing Transport
SyncTransport == 1      \* log() returns undefined
ThrowingTransport == 2  \* log() throws
AsyncTransport == 3     \* log() returns a Promise
UserTransports == {SyncTransport, ThrowingTransport, AsyncTransport}

\* user transports whose log() calls back into the logger that is dispatching
AddingTransport == 5    \* log() calls logger.addTransport(a SyncTransport)
RemovingTransport == 6  \* log() calls logger.removeTransport(this)
EvictingTransport == 7  \* log() calls logger.removeTransport(the SyncTransport)
ClearingTransport == 8  \* log() calls logger.clearTransports()

\* the ConsoleTransport created by the constructor of the k-th Logger
ConsoleBase == 10
ConsoleTransport(k) == ConsoleBase + k

\* the transport instances that exist
Transports == UserTransports \cup {ConsoleTransport(k) : k \in 1..Len(loggers)}

\* what transport.log(entry) does: "return", "throw" or "promise"
TransportLog(t) ==
    CASE t = ThrowingTransport -> "throw"
      [] t = AsyncTransport -> "promise"
      [] OTHER -> "return"

----------------------------------------------------------------------------
(* Logger: the methods, as operators on the fields of one instance *)

\* a truthy string returned by getEnv
Truthy(s) == s # NoEnv /\ s # ""

\* the keys k for which (k in LogLevel) holds: a numeric enum compiles to an
\* object with the names and, as reverse mapping, the numbers as keys
InLogLevel(k) ==
    \/ k \in DOMAIN LogLevelByName
    \/ k \in {"0", "1", "2", "3", "4", "5", "6"}

\* a level slot holding the string LogLevel[n] (a name) instead of a number
NameBase == 100
NameValue(n) == NameBase + n

\* LogLevel[k] for a key k of the enum object
LogLevelLookup(k) ==
    IF k \in DOMAIN LogLevelByName THEN LogLevelByName[k]
    ELSE CASE k = "0" -> NameValue(TRACE)
           [] k = "1" -> NameValue(DEBUG)
           [] k = "2" -> NameValue(INFO)
           [] k = "3" -> NameValue(WARN)
           [] k = "4" -> NameValue(ERROR)
           [] k = "5" -> NameValue(FATAL)
           [] OTHER -> NameValue(OFF)

\* an initializeFromEnvironment that looks the value up as it is written
InitializeFromEnvironmentCaseSensitive(options) ==
    LET raw == GetEnv("LOG_LEVEL")
        o1 == IF Truthy(raw) /\ InLogLevel(raw)
              THEN [options EXCEPT !.level = LogLevelLookup(raw)]
              ELSE options
    IN  IF Truthy(GetEnv("NO_COLOUR")) \/ GetEnv("NODE_ENV") = "test"
        THEN [o1 EXCEPT !.colourize = FALSE]
        ELSE o1

\* Logger.initializeFromEnvironment, on this.options
InitializeFromEnvironment(options) ==
    LET raw == GetEnv("LOG_LEVEL")
        envLevel == IF raw = NoEnv THEN NoEnv ELSE ToUpperCase(raw)
        o1 == IF Truthy(envLevel) /\ InLogLevel(envLevel)
              THEN [options EXCEPT !.level = LogLevelLookup(envLevel)]
              ELSE options
    IN  IF Truthy(GetEnv("NO_COLOUR")) \/ GetEnv("NODE_ENV") = "test"
        THEN [o1 EXCEPT !.colourize = FALSE]
        ELSE o1

\* addTransport that does not attach a transport the list already holds
AddTransportDedup(heap, ref, t) ==
    IF \E i \in 1..Len(heap[ref]) : heap[ref][i] = t
    THEN heap
    ELSE [heap EXCEPT ![ref] = Append(@, t)]

\* Logger.addTransport: this.transports.push(transport), in place
AddTransportTo(heap, ref, t) == [heap EXCEPT ![ref] = Append(@, t)]

\* Array.prototype.lastIndexOf, 1-based; 0 when absent
LastIndexOf(transports, t) ==
    IF \E i \in 1..Len(transports) : transports[i] = t
    THEN CHOOSE i \in 1..Len(transports) :
            /\ transports[i] = t
            /\ \A j \in (i + 1)..Len(transports) : transports[j] # t
    ELSE 0

\* Array.prototype.indexOf, 1-based; 0 when absent
IndexOf(transports, t) ==
    IF \E i \in 1..Len(transports) : transports[i] = t
    THEN CHOOSE i \in 1..Len(transports) :
            /\ transports[i] = t
            /\ \A j \in 1..(i - 1) : transports[j] # t
    ELSE 0

\* Array.prototype.splice(index, 1), with the 1-based index
Splice(transports, index) ==
    SubSeq(transports, 1, index - 1) \o SubSeq(transports, index + 1, Len(transports))

\* Logger.removeTransport: indexOf, then splice in place
RemoveTransportFrom(heap, ref, t) ==
    LET index == IndexOf(heap[ref], t)
    IN  IF index > 0 THEN [heap EXCEPT ![ref] = Splice(@, index)] ELSE heap

\* clearTransports that drops the last element only: this.transports.pop()
ClearTransportsPops(logger, heap) ==
    [logger |-> logger,
     heap |-> [heap EXCEPT ![logger.transports] = SubSeq(@, 1, Len(@) - 1)]]

\* Logger.clearTransports: this.transports = [], a new array
ClearTransportsOf(logger, heap) ==
    [logger |-> [logger EXCEPT !.transports = Len(heap) + 1],
     heap |-> Append(heap, <<>>)]

\* the constructor's scope normalisation
ScopeOf(scopeArg) == IF scopeArg.isArray THEN scopeArg.arr ELSE <<scopeArg.str>>

\* the constructor's options defaults
DefaultOptions(options) ==
    Spread([timestamp |-> TRUE, colourize |-> TRUE, level |-> globalLevel], options)

\* a constructor that adds one ConsoleTransport instance kept by the class
ConstructorSharedConsole(scopeArg, options, k, heap) ==
    LET ref == Len(heap) + 1
        heap0 == Append(heap, <<>>)
        heap1 == IF Len(heap0[ref]) = 0
                 THEN AddTransportTo(heap0, ref, ConsoleTransport(1))
                 ELSE heap0
    IN  [logger |-> [scope |-> ScopeOf(scopeArg),
                     options |-> InitializeFromEnvironment(DefaultOptions(options)),
                     transports |-> ref],
         heap |-> heap1]

\* new Logger(scope, options), as the k-th instance created: the field
\* initialiser allocates this.transports, the constructor body fills the fields
Constructor(scopeArg, options, k, heap) ==
    LET ref == Len(heap) + 1
        heap0 == Append(heap, <<>>)
        heap1 == IF Len(heap0[ref]) = 0
                 THEN AddTransportTo(heap0, ref, ConsoleTransport(k))
                 ELSE heap0
    IN  [logger |-> [scope |-> ScopeOf(scopeArg),
                     options |-> InitializeFromEnvironment(DefaultOptions(options)),
                     transports |-> ref],
         heap |-> heap1]

\* a child scope with the extra segments in front of the scope of the parent
ChildScopePrepend(scope, scopeArg) ==
    IF scopeArg.isArray THEN scopeArg.arr \o scope ELSE <<scopeArg.str>> \o scope

\* the scope child() passes to the constructor
ChildScope(scope, scopeArg) ==
    IF scopeArg.isArray THEN scope \o scopeArg.arr ELSE scope \o <<scopeArg.str>>

\* the loop of child() that copies the transports of the parent: one
\* childLogger.addTransport(transport) for each element of this.transports
RECURSIVE CopyTransports(_, _, _, _)
CopyTransports(heap, from, i, to) ==
    IF i > Len(heap[from]) THEN heap
    ELSE CopyTransports(AddTransportTo(heap, to, heap[from][i]), from, i + 1, to)

\* child() that hands the array of the parent to the child instead of copying
ChildLoggerSharesArray(parent, scopeArg, options, k, heap) ==
    LET constructed == Constructor(ScopeArr(ChildScope(parent.scope, scopeArg)),
                                   Spread(parent.options, options), k, heap)
    IN  [logger |-> [constructed.logger EXCEPT !.transports = parent.transports],
         heap |-> constructed.heap]

\* child() that copies without clearing the transports of the child first
ChildLoggerKeepsDefault(parent, scopeArg, options, k, heap) ==
    LET constructed == Constructor(ScopeArr(ChildScope(parent.scope, scopeArg)),
                                   Spread(parent.options, options), k, heap)
    IN  [logger |-> constructed.logger,
         heap |-> CopyTransports(constructed.heap, parent.transports, 1,
                                 constructed.logger.transports)]

\* child() that merges the metadata of the override into that of the parent
\* key by key, as withMetadata() does
ChildLoggerMergesMetadata(parent, scopeArg, options, k, heap) ==
    LET merged == IF "metadata" \in DOMAIN options
                  THEN Spread(Spread(parent.options, options),
                              [metadata |-> Meta(Spread(SpreadMeta(GetMetadata(parent.options)),
                                                        SpreadMeta(options.metadata)))])
                  ELSE Spread(parent.options, options)
        constructed == Constructor(ScopeArr(ChildScope(parent.scope, scopeArg)),
                                   merged, k, heap)
        cleared == ClearTransportsOf(constructed.logger, constructed.heap)
    IN  [logger |-> cleared.logger,
         heap |-> CopyTransports(cleared.heap, parent.transports, 1,
                                 cleared.logger.transports)]

\* child() that passes the override alone, without the options of the parent
ChildLoggerDropsParentOptions(parent, scopeArg, options, k, heap) ==
    LET constructed == Constructor(ScopeArr(ChildScope(parent.scope, scopeArg)),
                                   options, k, heap)
        cleared == ClearTransportsOf(constructed.logger, constructed.heap)
    IN  [logger |-> cleared.logger,
         heap |-> CopyTransports(cleared.heap, parent.transports, 1,
                                 cleared.logger.transports)]

\* parent.child(scope, options), as the k-th instance created
ChildLogger(parent, scopeArg, options, k, heap) ==
    LET constructed == Constructor(ScopeArr(ChildScope(parent.scope, scopeArg)),
                                   Spread(parent.options, options), k, heap)
        cleared == ClearTransportsOf(constructed.logger, constructed.heap)
    IN  [logger |-> cleared.logger,
         heap |-> CopyTransports(cleared.heap, parent.transports, 1,
                                 cleared.logger.transports)]

\* a merge in which the metadata of the receiver wins
MergeMetadataReceiverWins(current, metadata) == Meta(Spread(metadata, SpreadMeta(current)))

\* the metadata withMetadata() passes to the constructor
MergeMetadata(current, metadata) == Meta(Spread(SpreadMeta(current), metadata))

\* a withMetadata() that passes the merged metadata alone as options
WithMetadataLoggerDropsOptions(receiver, metadata, k, heap) ==
    Constructor(ScopeArr(receiver.scope),
                [metadata |-> MergeMetadata(GetMetadata(receiver.options), metadata)],
                k, heap)

\* receiver.withMetadata(metadata), as the k-th instance created
WithMetadataLogger(receiver, metadata, k, heap) ==
    Constructor(ScopeArr(receiver.scope),
                Spread(receiver.options,
                       [metadata |-> MergeMetadata(GetMetadata(receiver.options), metadata)]),
                k, heap)

\* an effective level that reads the global level first
EffectiveLevelGlobalWins(options) == globalLevel

\* this.options.level ?? Logger.globalLevel
EffectiveLevel(options) ==
    IF options.level # Undefined THEN options.level ELSE globalLevel

\* level >= effectiveLevel; a number compared with a non-numeric string is false
GreaterOrEqual(level, effectiveLevel) ==
    IF effectiveLevel \in LogLevel THEN level >= effectiveLevel ELSE FALSE

\* shouldLog with a strict comparison
ShouldLogStrict(options, level) ==
    LET effectiveLevel == EffectiveLevel(options)
    IN  IF effectiveLevel \in LogLevel THEN level > effectiveLevel ELSE FALSE

\* shouldLog that takes OFF for the highest severity instead of a level above it
ShouldLogOffAsFatal(options, level) ==
    LET effectiveLevel == EffectiveLevel(options)
    IN  IF effectiveLevel = OFF THEN level >= FATAL
        ELSE GreaterOrEqual(level, effectiveLevel)

\* Logger.shouldLog
ShouldLog(options, level) == GreaterOrEqual(level, EffectiveLevel(options))

----------------------------------------------------------------------------
(* ConsoleFormatter and the default ConsoleTransport. A text is the        *)
(* sequence of its pieces: the names of the ANSI codes of COLOURS and the   *)
(* names of the parts of the entry that were rendered                      *)

\* SCOPE_COLOURS: the palette assigned to scope names, by the names of the codes
SCOPE_COLOURS ==
    <<"FG_RED", "FG_GREEN", "FG_YELLOW", "FG_BLUE", "FG_MAGENTA", "FG_CYAN",
      "FG_BRIGHT_RED", "FG_BRIGHT_GREEN", "FG_BRIGHT_YELLOW", "FG_BRIGHT_BLUE",
      "FG_BRIGHT_MAGENTA", "FG_BRIGHT_CYAN">>

\* the names of the ANSI escape codes a ConsoleFormatter writes
AnsiCodes ==
    {"RESET", "DIM", "FG_GRAY", "FG_WHITE", "FG_GREEN", "FG_YELLOW", "FG_RED",
     "BG_RED"} \cup {SCOPE_COLOURS[i] : i \in 1..Len(SCOPE_COLOURS)}

\* colourize(text, colour): colour, text, COLOURS.RESET
Colourize(text, colour) == colour \o text \o <<"RESET">>

\* the options of new ConsoleFormatter(), constructed without arguments
ConsoleFormatterOptions ==
    [timestamp |-> TRUE, colourize |-> TRUE, showScope |-> TRUE, timeFormat |-> "locale"]

\* ConsoleFormatter.getLevelColour
GetLevelColour(level) ==
    CASE level = TRACE -> <<"FG_GRAY">>
      [] level = DEBUG -> <<"FG_WHITE">>
      [] level = INFO -> <<"FG_GREEN">>
      [] level = WARN -> <<"FG_YELLOW">>
      [] level = ERROR -> <<"FG_RED">>
      [] level = FATAL -> <<"BG_RED", "FG_WHITE">>
      [] OTHER -> <<"RESET">>

\* LogLevel[level].padEnd(5): the name of the level, padded to five characters
LevelNamePadEnd(level) ==
    CASE level = TRACE -> "TRACE"
      [] level = DEBUG -> "DEBUG"
      [] level = INFO -> "INFO "
      [] level = WARN -> "WARN "
      [] level = ERROR -> "ERROR"
      [] level = FATAL -> "FATAL"
      [] level = OFF -> "OFF  "

\* ConsoleFormatter.formatLevel
FormatLevel(options, level) ==
    IF ~options.colourize THEN <<"[" \o LevelNamePadEnd(level) \o "]">>
    ELSE Colourize(<<"[" \o LevelNamePadEnd(level) \o "]">>, GetLevelColour(level))

\* scope.join("/")
RECURSIVE Join(_)
Join(scope) ==
    IF Len(scope) = 0 THEN ""
    ELSE IF Len(scope) = 1 THEN scope[1]
    ELSE scope[1] \o "/" \o Join(Tail(scope))

\* a getScopeColour that computes the colour from the name alone and keeps
\* no map
GetScopeColourStateless(map, scopeName) ==
    [colour |-> SCOPE_COLOURS[(Len(scopeName) % Len(SCOPE_COLOURS)) + 1], map |-> map,
     threw |-> FALSE]

\* a getScopeColour that indexes the palette by the size of the map
GetScopeColourNoWrap(map, scopeName) ==
    IF scopeName \in DOMAIN map
    THEN [colour |-> map[scopeName], map |-> map, threw |-> FALSE]
    ELSE LET colourIndex == Cardinality(DOMAIN map)
             colour == IF colourIndex + 1 \in DOMAIN SCOPE_COLOURS
                       THEN SCOPE_COLOURS[colourIndex + 1] ELSE ""
         IN  IF colour = "" THEN [colour |-> colour, map |-> map, threw |-> TRUE]
             ELSE [colour |-> colour,
                   map |-> [k \in (DOMAIN map) \cup {scopeName} |->
                               IF k = scopeName THEN colour ELSE map[k]],
                   threw |-> FALSE]

\* ConsoleFormatter.getScopeColour on the static scopeColourMap: the colour the
\* name already has, else the next of the palette, which the map then keeps;
\* an index without an element gives undefined (""), on which it throws
GetScopeColour(map, scopeName) ==
    IF scopeName \in DOMAIN map
    THEN [colour |-> map[scopeName], map |-> map, threw |-> FALSE]
    ELSE LET colourIndex == Cardinality(DOMAIN map) % Len(SCOPE_COLOURS)
             colour == IF colourIndex + 1 \in DOMAIN SCOPE_COLOURS
                       THEN SCOPE_COLOURS[colourIndex + 1] ELSE ""
         IN  IF colour = "" THEN [colour |-> colour, map |-> map, threw |-> TRUE]
             ELSE [colour |-> colour,
                   map |-> [k \in (DOMAIN map) \cup {scopeName} |->
                               IF k = scopeName THEN colour ELSE map[k]],
                   threw |-> FALSE]

\* ConsoleFormatter.formatScope: the text, and the static map after the call
FormatScope(options, scope, map) ==
    LET scopeString == <<"[" \o Join(scope) \o "]">>
    IN  IF ~options.colourize THEN [text |-> scopeString, map |-> map, threw |-> FALSE]
        ELSE LET r == GetScopeColour(map, Join(scope))
             IN  [text |-> Colourize(scopeString, <<r.colour>>), map |-> r.map,
                  threw |-> r.threw]

\* ConsoleFormatter.format, called while the static scopeColourMap is map: the
\* text returned and the map after the call. The timestamp is rendered by the
\* locale of the host and stands in the text as the piece "timestamp".
Format(options, entry, map) ==
    LET timestamp == IF options.timestamp
                     THEN IF options.colourize
                          THEN Colourize(<<"timestamp">>, <<"DIM">>)
                          ELSE <<"timestamp">>
                     ELSE <<>>
        scope == IF options.showScope /\ Len(entry.scope) > 0
                 THEN FormatScope(options, entry.scope, map)
                 ELSE [text |-> <<>>, map |-> map, threw |-> FALSE]
    IN  [text |-> timestamp \o FormatLevel(options, entry.level) \o scope.text
                    \o <<entry.message>>,
         map |-> scope.map,
         threw |-> scope.threw]

\* ConsoleTransport.log of a transport constructed without a formatter: the
\* arguments it hands to console.log, and the static map after the call
ConsoleTransportLog(entry, map) ==
    LET formatted == Format(ConsoleFormatterOptions, entry, map)
    IN  [text |-> formatted.text, args |-> entry.args, map |-> formatted.map]

----------------------------------------------------------------------------
(* JsonFormatter. The text is kept as the object JSON.stringify is given:   *)
(* its keys in order of insertion and the value of each; a key left out     *)
(* has the empty value in its slot                                          *)

\* a format that includes the metadata key whenever metadata is defined
JsonFormatKeepsEmpty(entry) ==
    LET hasMetadata == entry.metadata.def
        hasArgs == Len(entry.args) > 0
    IN  [keys |-> <<"timestamp", "level", "scope", "message">>
                    \o (IF hasMetadata THEN <<"metadata">> ELSE <<>>)
                    \o (IF hasArgs THEN <<"args">> ELSE <<>>),
         timestamp |-> entry.timestamp,
         level |-> entry.level,
         scope |-> entry.scope,
         message |-> entry.message,
         metadata |-> IF hasMetadata THEN entry.metadata.map ELSE EmptyObject,
         args |-> IF hasArgs THEN entry.args ELSE <<>>]

\* JsonFormatter.format
JsonFormat(entry) ==
    LET hasMetadata == entry.metadata.def /\ Cardinality(DOMAIN entry.metadata.map) > 0
        hasArgs == Len(entry.args) > 0
    IN  [keys |-> <<"timestamp", "level", "scope", "message">>
                    \o (IF hasMetadata THEN <<"metadata">> ELSE <<>>)
                    \o (IF hasArgs THEN <<"args">> ELSE <<>>),
         timestamp |-> entry.timestamp,
         level |-> entry.level,
         scope |-> entry.scope,
         message |-> entry.message,
         metadata |-> IF hasMetadata THEN entry.metadata.map ELSE EmptyObject,
         args |-> IF hasArgs THEN entry.args ELSE <<>>]

----------------------------------------------------------------------------
(* FileTransport. The file system is a mapping from the names of the files *)
(* that exist to their content, a sequence of lines; every formatted line   *)
(* has the same length, which is the unit of maxSize                        *)

\* the FileTransport instance, as an element of a transport list
FileTransport == 4

\* no FileTransport was constructed
NoFileTransport == [constructed |-> FALSE, filename |-> "", maxSize |-> 0, maxFiles |-> 0]

\* options.maxFiles || 5
DefaultMaxFiles == 5

\* new FileTransport(options); maxSize and maxFiles are 0 where not given
FileTransportConstructor(options, fs) ==
    [transport |-> [constructed |-> TRUE,
                    filename |-> options.filename,
                    maxSize |-> options.maxSize,
                    maxFiles |-> IF options.maxFiles = 0 THEN DefaultMaxFiles
                                 ELSE options.maxFiles],
     files |-> IF options.filename \in DOMAIN fs THEN fs
               ELSE [k \in (DOMAIN fs) \cup {options.filename} |->
                        IF k = options.filename THEN <<>> ELSE fs[k]]]

\* `${filename}.${i}`
Rotated(filename, i) == filename \o "." \o ToString(i)

\* statSync(file).size
Size(fs, file) == Len(fs[file])

\* unlinkSync(file)
Unlink(fs, file) == [k \in (DOMAIN fs) \ {file} |-> fs[k]]

\* renameSync(oldFile, newFile): replaces newFile when it exists
Rename(fs, oldFile, newFile) ==
    [k \in ((DOMAIN fs) \ {oldFile}) \cup {newFile} |->
        IF k = newFile THEN fs[oldFile] ELSE fs[k]]

\* writeFileSync(file, "")
Truncate(fs, file) ==
    [k \in (DOMAIN fs) \cup {file} |-> IF k = file THEN <<>> ELSE fs[k]]

\* appendFileSync(file, line): creates the file when it does not exist
AppendFile(fs, file, line) ==
    [k \in (DOMAIN fs) \cup {file} |->
        IF k = file
        THEN (IF file \in DOMAIN fs THEN Append(fs[file], line) ELSE <<line>>)
        ELSE fs[k]]

\* the loop of rotateIfNeeded, from index i down to 1
RECURSIVE RotateLoop(_, _, _)
RotateLoop(transport, i, fs) ==
    IF i < 1 THEN fs
    ELSE LET oldFile == Rotated(transport.filename, i)
             newFile == Rotated(transport.filename, i + 1)
             next == IF oldFile \in DOMAIN fs
                     THEN IF i = transport.maxFiles - 1
                          THEN Unlink(fs, oldFile)
                          ELSE Rename(fs, oldFile, newFile)
                     ELSE fs
         IN  RotateLoop(transport, i - 1, next)

\* FileTransport.rotateIfNeeded
RotateIfNeeded(transport, fs) ==
    IF transport.filename \notin DOMAIN fs \/ transport.maxSize = 0 THEN fs
    ELSE IF Size(fs, transport.filename) < transport.maxSize THEN fs
    ELSE IF transport.maxFiles = 0 THEN fs
    ELSE LET shifted == RotateLoop(transport, transport.maxFiles - 1, fs)
             renamed == Rename(shifted, transport.filename, Rotated(transport.filename, 1))
         IN  Truncate(renamed, transport.filename)

\* FileTransport.log: the file system after the call
FileTransportLog(transport, fs, entry) ==
    LET formatted == JsonFormat(entry)
        rotated == IF transport.maxSize # 0 THEN RotateIfNeeded(transport, fs) ELSE fs
    IN  AppendFile(rotated, transport.filename, formatted)

----------------------------------------------------------------------------
(* The transports of the browser: construction *)

\* the result of a constructor that threw
Threw(message) == [threw |-> TRUE, error |-> message, object |-> <<>>]

\* options.maxLogs || 1000
DefaultMaxLogs == 1000

\* a BrowserFileTransport constructor without the check of the host
BrowserFileTransportUnchecked(options, hasWindow) ==
    [threw |-> FALSE, error |-> "",
     object |-> [class |-> "BrowserFileTransport",
                 filename |-> IF options.filename = "" THEN "app.log" ELSE options.filename,
                 autoDownload |-> options.autoDownload,
                 maxLogs |-> IF options.maxLogs = 0 THEN DefaultMaxLogs ELSE options.maxLogs,
                 logs |-> <<>>]]

\* new BrowserFileTransport(options) in a host where typeof window is or is
\* not "undefined"; filename is "", autoDownload FALSE and maxLogs 0 where
\* not given
BrowserFileTransportConstructor(options, hasWindow) ==
    IF ~hasWindow
    THEN Threw("BrowserFileTransport can only be used in browser environments")
    ELSE [threw |-> FALSE, error |-> "",
          object |-> [class |-> "BrowserFileTransport",
                      filename |-> IF options.filename = "" THEN "app.log"
                                   ELSE options.filename,
                      autoDownload |-> options.autoDownload,
                      maxLogs |-> IF options.maxLogs = 0 THEN DefaultMaxLogs
                                  ELSE options.maxLogs,
                      logs |-> <<>>]]

\* the characters of "viol-logs"; a string that is compared or searched is
\* the sequence of its characters
DefaultKeyPrefix == <<"v", "i", "o", "l", "-", "l", "o", "g", "s">>

\* options.maxEntries || 1000
DefaultMaxEntries == 1000

\* new BrowserStorageTransport(options); keyPrefix is the empty string and
\* maxEntries 0 where not given; the formatter is the default JsonFormatter
BrowserStorageTransportConstructor(options, hasWindow) ==
    IF ~hasWindow
    THEN Threw("BrowserStorageTransport can only be used in browser environments")
    ELSE [threw |-> FALSE, error |-> "",
          object |-> [class |-> "BrowserStorageTransport",
                      keyPrefix |-> IF options.keyPrefix = <<>> THEN DefaultKeyPrefix
                                    ELSE options.keyPrefix,
                      maxEntries |-> IF options.maxEntries = 0 THEN DefaultMaxEntries
                                     ELSE options.maxEntries,
                      storage |-> IF options.storage = "sessionStorage"
                                  THEN "sessionStorage" ELSE "localStorage"]]

----------------------------------------------------------------------------
(* BrowserStorageTransport. A Storage object is a mapping from the keys set *)
(* to their values; keys are strings, compared as Array.prototype.sort      *)
(* compares them: by UTF-16 code units                                      *)

\* the characters keys are made of, in the order of their code units
Alphabet ==
    <<"-", "0", "1", "2", "3", "4", "5", "6", "7", "8", "9",
      "a", "b", "c", "d", "e", "f", "g", "h", "i", "j", "k", "l", "m",
      "n", "o", "p", "q", "r", "s", "t", "u", "v", "w", "x", "y", "z">>

\* the UTF-16 code unit of a character: "-" is 45, "0" is 48, "a" is 97
CodeUnit(ch) ==
    LET i == CHOOSE j \in 1..Len(Alphabet) : Alphabet[j] = ch
    IN  IF i = 1 THEN 45 ELSE IF i <= 11 THEN 46 + i ELSE 85 + i

\* a < b for two strings, as the default comparison of sort() has it
StringLess(a, b) ==
    \E i \in 1..Len(b) :
        /\ \A j \in 1..(i - 1) : j <= Len(a) /\ a[j] = b[j]
        /\ IF i > Len(a) THEN TRUE ELSE CodeUnit(a[i]) < CodeUnit(b[i])

\* key.startsWith(prefix)
StartsWith(key, prefix) ==
    /\ Len(prefix) <= Len(key)
    /\ SubSeq(key, 1, Len(prefix)) = prefix

\* the decimal digits of a number, as a template literal writes it
RECURSIVE ToDecimal(_)
ToDecimal(n) ==
    IF n < 10 THEN <<Alphabet[n + 2]>>
    ELSE ToDecimal(n \div 10) \o <<Alphabet[(n % 10) + 2]>>

\* keys.sort() on a set of distinct keys
RECURSIVE SortKeys(_)
SortKeys(keys) ==
    IF keys = {} THEN <<>>
    ELSE LET least == CHOOSE k \in keys : \A o \in keys \ {k} : StringLess(k, o)
         IN  <<least>> \o SortKeys(keys \ {least})

\* Object.keys(this.storage).filter((key) => key.startsWith(this.keyPrefix))
PrefixedKeys(transport, store) ==
    {k \in DOMAIN store : StartsWith(k, transport.keyPrefix)}

\* storage.setItem(key, value)
SetItem(store, key, value) ==
    [k \in (DOMAIN store) \cup {key} |-> IF k = key THEN value ELSE store[k]]

\* storage.removeItem for each key of a set
RemoveItems(store, keys) == [k \in (DOMAIN store) \ keys |-> store[k]]

\* BrowserStorageTransport.cleanupOldEntries: while more than maxEntries
\* keys are left, the first of the sorted keys is shifted out and removed
CleanupOldEntries(transport, store) ==
    LET keys == SortKeys(PrefixedKeys(transport, store))
        excess == IF Len(keys) > transport.maxEntries
                  THEN Len(keys) - transport.maxEntries ELSE 0
    IN  RemoveItems(store, {keys[i] : i \in 1..excess})

\* BrowserStorageTransport.clearLogs: every key that starts with the prefix
\* is removed
BrowserStorageClearLogs(transport, store) ==
    RemoveItems(store, PrefixedKeys(transport, store))

\* the key of BrowserStorageTransport.log; random is what
\* Math.random().toString(36).substring(2, 9) returned
StorageKey(transport, entry, random) ==
    transport.keyPrefix \o <<"-">> \o ToDecimal(entry.timestamp) \o <<"-">> \o random

\* BrowserStorageTransport.log: the Storage object and console.warn after
\* the call; quotaExceeded is whether setItem throws, which the catch block
\* reports
BrowserStorageLog(transport, store, entry, random, quotaExceeded) ==
    LET formatted == JsonFormat(entry)
        key == StorageKey(transport, entry, random)
    IN  IF quotaExceeded
        THEN [store |-> store, warned |-> <<"failed to write to browser storage:">>,
              key |-> key, threw |-> FALSE]
        ELSE [store |-> CleanupOldEntries(transport, SetItem(store, key, formatted)),
              warned |-> <<>>, key |-> key, threw |-> FALSE]

----------------------------------------------------------------------------
(* BrowserFileTransport: the buffer of formatted entries and the downloads *)

\* the modulus of the autoDownload test: this.logs.length % 100 === 0
DownloadEvery == 100

\* the JSON.stringify call of BrowserFileTransport.log, which builds the
\* object JsonFormatter.format builds
BrowserFileStringify(entry) == JsonFormat(entry)

\* BrowserFileTransport.downloadLogs: the file handed to the browser
DownloadLogs(transport) == [filename |-> transport.filename, content |-> transport.logs]

\* BrowserFileTransport.log: the transport after the call and the downloads
\* the call triggered
BrowserFileLog(transport, entry) ==
    LET formatted == BrowserFileStringify(entry)
        pushed == Append(transport.logs, formatted)
        kept == IF Len(pushed) > transport.maxLogs THEN Tail(pushed) ELSE pushed
        after == [transport EXCEPT !.logs = kept]
    IN  [transport |-> after,
         downloads |-> IF transport.autoDownload /\ Len(kept) % DownloadEvery = 0
                       THEN <<DownloadLogs(after)>> ELSE <<>>]

\* BrowserFileTransport.clearLogs
BrowserFileClearLogs(transport) == [transport EXCEPT !.logs = <<>>]

\* BrowserFileTransport.getLogCount
GetLogCount(transport) == Len(transport.logs)

----------------------------------------------------------------------------
(* Logger.log: entry construction and the dispatch loop *)

\* new Date(): the clock reads are numbered, one per entry constructed
DateNow == Cardinality({i \in 1..Len(calls) : calls[i].constructed}) + 1

\* the entry slot of a call that constructed no entry
NoEntry ==
    [level |-> Undefined, message |-> "", timestamp |-> 0, scope |-> <<>>,
     scopeCopied |-> TRUE, args |-> <<>>, metadata |-> MetaUndefined]

\* an entry literal that leaves the extra arguments out
MakeEntryWithoutArgs(logger, level, message, args) ==
    [level |-> level,
     message |-> message,
     timestamp |-> DateNow,
     scope |-> logger.scope,
     scopeCopied |-> TRUE,
     args |-> <<>>,
     metadata |-> GetMetadata(logger.options)]

\* an entry literal that hands this.scope itself to the transports
MakeEntrySharesScope(logger, level, message, args) ==
    [level |-> level,
     message |-> message,
     timestamp |-> DateNow,
     scope |-> logger.scope,
     scopeCopied |-> FALSE,
     args |-> args,
     metadata |-> GetMetadata(logger.options)]

\* the LogEntry literal of Logger.log; scope: [...this.scope] is a new array
\* (scopeCopied), metadata is the mapping of this.options itself
MakeEntry(logger, level, message, args) ==
    [level |-> level,
     message |-> message,
     timestamp |-> DateNow,
     scope |-> logger.scope,
     scopeCopied |-> TRUE,
     args |-> args,
     metadata |-> GetMetadata(logger.options)]

\* console.error("transport error:", error) of the catch block
SyncReport(c, i, t) == [text |-> "transport error:", call |-> c, pos |-> i, transport |-> t]

\* console.error("Transport error:", error) of the .catch handler
AsyncReport(p) == [text |-> "Transport error:", call |-> p.call, pos |-> p.pos, transport |-> p.transport]

\* the promise a transport returned, with no rejection handler attached
CatchNotAttached(c, i, t) ==
    [call |-> c, pos |-> i, transport |-> t, state |-> "pending",
     handled |-> FALSE, reported |-> FALSE]

\* the promise a transport returned, after result.catch(handler)
CatchAttached(c, i, t) ==
    [call |-> c, pos |-> i, transport |-> t, state |-> "pending",
     handled |-> TRUE, reported |-> FALSE]

\* what the log method of a transport that returns does to the host: a
\* ConsoleTransport formats the entry and hands the text to console.log, the
\* FileTransport rotates and appends, a transport that calls back changes
\* this.transports of the logger that dispatches; acc is the state of the call
\* so far
TransportEffect(t, entry, acc) ==
    CASE t = FileTransport ->
            [acc EXCEPT !.files = FileTransportLog(fileTransport, @, entry)]
      [] t = AddingTransport ->
            [acc EXCEPT !.heap = AddTransportTo(@, acc.logger.transports, SyncTransport)]
      [] t = RemovingTransport ->
            [acc EXCEPT !.heap = RemoveTransportFrom(@, acc.logger.transports, t)]
      [] t = EvictingTransport ->
            [acc EXCEPT !.heap = RemoveTransportFrom(@, acc.logger.transports, SyncTransport)]
      [] t = ClearingTransport ->
            LET r == ClearTransportsOf(acc.logger, acc.heap)
            IN  [acc EXCEPT !.logger = r.logger, !.heap = r.heap]
      [] t > ConsoleBase ->
            LET written == ConsoleTransportLog(entry, acc.scopeColourMap)
            IN  [acc EXCEPT !.console = Append(@, [transport |-> t, entry |-> entry,
                                                    text |-> written.text,
                                                    args |-> written.args,
                                                    before |-> acc.scopeColourMap]),
                            !.scopeColourMap = written.map]
      [] OTHER -> acc

\* an iteration without the try/catch: what a transport throws leaves the loop
IterationNoCatch(t, i, entry, c, acc) ==
    LET result == TransportLog(t)
        delivered == Append(acc.invoked, [transport |-> t, entry |-> entry])
    IN  CASE result = "throw" ->
                [acc EXCEPT !.invoked = delivered, !.escaped = TRUE]
          [] result = "promise" ->
                [acc EXCEPT !.invoked = delivered,
                            !.promises = Append(@, CatchAttached(c, i, t))]
          [] OTHER ->
                [TransportEffect(t, entry, acc) EXCEPT !.invoked = delivered]

\* an iteration that awaits the promise of the transport before going on
IterationAwait(t, i, entry, c, acc) ==
    LET result == TransportLog(t)
        delivered == Append(acc.invoked, [transport |-> t, entry |-> entry])
    IN  CASE result = "throw" ->
                [acc EXCEPT !.invoked = delivered,
                            !.diag = Append(@, SyncReport(c, i, t))]
          [] result = "promise" ->
                [acc EXCEPT !.invoked = delivered,
                            !.promises = Append(@, CatchAttached(c, i, t)),
                            !.suspended = TRUE]
          [] OTHER ->
                [TransportEffect(t, entry, acc) EXCEPT !.invoked = delivered]

\* one iteration of the loop: the try block and its catch, for the transport
\* at position i of call c; acc is the state of the call so far
Iteration(t, i, entry, c, acc) ==
    LET result == TransportLog(t)
        delivered == Append(acc.invoked, [transport |-> t, entry |-> entry])
    IN  CASE result = "throw" ->
                [acc EXCEPT !.invoked = delivered,
                            !.diag = Append(@, SyncReport(c, i, t))]
          [] result = "promise" ->
                [acc EXCEPT !.invoked = delivered,
                            !.promises = Append(@, CatchAttached(c, i, t))]
          [] OTHER ->
                [TransportEffect(t, entry, acc) EXCEPT !.invoked = delivered]

\* a loop that visits the transports from the last attached to the first
RECURSIVE ForOfTransportsReversed(_, _, _, _, _)
ForOfTransportsReversed(transports, i, entry, c, acc) ==
    LET array == acc.heap[transports]
    IN  IF i > Len(array) \/ acc.escaped \/ acc.suspended THEN acc
        ELSE ForOfTransportsReversed(transports, i + 1, entry, c,
                                     Iteration(array[Len(array) + 1 - i],
                                               Len(array) + 1 - i, entry, c, acc))

\* for (const transport of this.transports): this.transports is evaluated
\* once, to the reference transports of an array; the iterator reads the
\* array as it is at each step, while the index is below its length. The
\* loop stops when an exception escapes the body or the body suspends
RECURSIVE ForOfTransports(_, _, _, _, _)
ForOfTransports(transports, i, entry, c, acc) ==
    LET array == acc.heap[transports]
    IN  IF i > Len(array) \/ acc.escaped \/ acc.suspended THEN acc
        ELSE ForOfTransports(transports, i + 1, entry, c,
                             Iteration(array[i], i, entry, c, acc))

\* the state of a call before the loop; the logger slot is filled by the
\* logger that makes the call
StartOfCall ==
    [invoked |-> <<>>, promises |-> promises, diag |-> diag,
     console |-> console, scopeColourMap |-> scopeColourMap, files |-> files,
     heap |-> arrays,
     logger |-> [scope |-> <<>>, options |-> EmptyObject, transports |-> 0],
     escaped |-> FALSE, suspended |-> FALSE]

\* Logger.log(level, message, ...args) on a logger whose this.transports holds
\* the given elements, as call number c
LogCall(logger, transports, level, message, args, c) ==
    LET start == [StartOfCall EXCEPT
                     !.logger = logger,
                     !.heap = [@ EXCEPT ![logger.transports] = transports]]
    IN  IF ~ShouldLog(logger.options, level)
        THEN [constructed |-> FALSE, entry |-> NoEntry, out |-> start]
        ELSE LET entry == MakeEntry(logger, level, message, args)
             IN  [constructed |-> TRUE, entry |-> entry,
                  out |-> ForOfTransports(logger.transports, 1, entry, c, start)]

----------------------------------------------------------------------------
(* The state machine *)

\* no formatter was called directly yet
NoFormat == [called |-> FALSE, formatter |-> "", options |-> ConsoleFormatterOptions,
             entry |-> <<>>, scope |-> <<>>, text |-> <<>>, threw |-> FALSE]

\* no list operation was made yet
NoOp == [op |-> "none", node |-> 0, transport |-> 0, before |-> <<>>]

Init ==
    /\ globalLevel = INFO
    /\ env = [LOG_LEVEL |-> NoEnv, NO_COLOUR |-> NoEnv, NODE_ENV |-> NoEnv]
    /\ loggers = <<>>
    /\ arrays = <<>>
    /\ origin = <<>>
    /\ calls = <<>>
    /\ promises = <<>>
    /\ diag = <<>>
    /\ mutations = 0
    /\ lastOp = NoOp
    /\ writes = 0
    /\ scopeColourMap = <<>>
    /\ console = <<>>
    /\ fileTransport = NoFileTransport
    /\ files = <<>>
    /\ window = FALSE
    /\ browserTransports = <<>>
    /\ thrown = <<>>
    /\ storage = [localStorage |-> <<>>, sessionStorage |-> <<>>]
    /\ warned = <<>>
    /\ stored = <<>>
    /\ downloads = <<>>
    /\ buffered = <<>>
    /\ lastFormat = NoFormat
    /\ seen = <<>>

\* the elements of loggers[n].transports
TransportsOf(n) == arrays[loggers[n].transports]

\* a constructor that makes an explicit level the global level
NewLoggerSetsGlobalLevel(scopeArg, options) ==
    /\ LET r == Constructor(scopeArg, options, Len(loggers) + 1, arrays)
       IN  /\ loggers' = Append(loggers, r.logger)
           /\ arrays' = r.heap
    /\ origin' = Append(origin,
            [kind |-> "new", parent |-> 0, scopeArg |-> scopeArg, options |-> options,
             metadata |-> EmptyObject, parentTransports |-> <<>>, env |-> env])
    /\ globalLevel' = IF "level" \in DOMAIN options THEN options.level ELSE globalLevel
    /\ UNCHANGED hostVars
    /\ UNCHANGED <<env, calls, promises, diag, mutations, lastOp, writes>>

\* the identity of the array loggers[n].scope refers to, named by the logger
\* whose construction first held it: the constructor keeps an array argument
\* as it is and wraps a string in a new array; child() builds a new array,
\* withMetadata() passes this.scope
RECURSIVE ScopeId(_)
ScopeId(n) ==
    IF origin[n].kind = "withMetadata" THEN ScopeId(origin[n].parent) ELSE n

\* the identity of the mapping loggers[n].options.metadata refers to, 0 when
\* it is undefined: the spreads of the constructor and of child() copy the
\* reference, withMetadata() builds a new mapping
RECURSIVE MetaId(_)
MetaId(n) ==
    CASE ~GetMetadata(loggers[n].options).def -> 0
      [] origin[n].kind = "child" /\ "metadata" \notin DOMAIN origin[n].options ->
            MetaId(origin[n].parent)
      [] OTHER -> n

\* the array of loggers[n].scope is one the caller of the constructor holds
ScopeHeldByCaller(n) ==
    origin[ScopeId(n)].kind = "new" /\ origin[ScopeId(n)].scopeArg.isArray

\* a holder of the mapping that is loggers[n].options.metadata (the caller
\* that passed it, a transport that received it in an entry) writes to it;
\* entry.metadata of every entry constructed by a logger that holds the
\* mapping is that mapping too (metadata: this.options.metadata), so the
\* entries already delivered show the write
MutateMetadata(n, extra) ==
    /\ MetaId(n) # 0
    /\ loggers' = [m \in 1..Len(loggers) |->
                      IF MetaId(m) = MetaId(n)
                      THEN [loggers[m] EXCEPT
                               !.options.metadata = Meta(Spread(@.map, extra))]
                      ELSE loggers[m]]
    /\ calls' = [i \in 1..Len(calls) |->
                    IF calls[i].constructed /\ MetaId(calls[i].node) = MetaId(n)
                    THEN [calls[i] EXCEPT
                             !.entry.metadata = Meta(Spread(@.map, extra)),
                             !.invoked = [j \in 1..Len(@) |->
                                 [@[j] EXCEPT
                                     !.entry.metadata = Meta(Spread(@.map, extra))]]]
                    ELSE calls[i]]
    /\ writes' = writes + 1
    /\ UNCHANGED hostVars
    /\ UNCHANGED <<globalLevel, env, arrays, origin, promises, diag, mutations, lastOp>>

\* the caller that passed an array as scope to the constructor pushes onto it
MutateScope(n, segment) ==
    /\ ScopeHeldByCaller(n)
    /\ loggers' = [m \in 1..Len(loggers) |->
                      IF ScopeId(m) = ScopeId(n)
                      THEN [loggers[m] EXCEPT !.scope = Append(@, segment)]
                      ELSE loggers[m]]
    /\ writes' = writes + 1
    /\ UNCHANGED hostVars
    /\ UNCHANGED <<globalLevel, env, arrays, origin, calls, promises, diag, mutations, lastOp>>

\* a transport pushes onto entry.scope of the entry it received in call i
MutateEntryScope(i, segment) ==
    /\ calls[i].constructed
    /\ calls' = [calls EXCEPT
                    ![i].entry.scope = Append(@, segment),
                    ![i].invoked = [j \in 1..Len(@) |->
                                       [@[j] EXCEPT !.entry.scope = Append(@, segment)]]]
    /\ loggers' = [m \in 1..Len(loggers) |->
                      IF ~calls[i].entry.scopeCopied /\ ScopeId(m) = ScopeId(calls[i].node)
                      THEN [loggers[m] EXCEPT !.scope = Append(@, segment)]
                      ELSE loggers[m]]
    /\ writes' = writes + 1
    /\ UNCHANGED hostVars
    /\ UNCHANGED <<globalLevel, env, arrays, origin, promises, diag, mutations, lastOp>>

\* new Logger(scope, options)
NewLogger(scopeArg, options) ==
    /\ LET r == Constructor(scopeArg, options, Len(loggers) + 1, arrays)
       IN  /\ loggers' = Append(loggers, r.logger)
           /\ arrays' = r.heap
    /\ origin' = Append(origin,
            [kind |-> "new", parent |-> 0, scopeArg |-> scopeArg, options |-> options,
             metadata |-> EmptyObject, parentTransports |-> <<>>, env |-> env])
    /\ UNCHANGED hostVars
    /\ UNCHANGED <<globalLevel, env, calls, promises, diag, mutations, lastOp, writes>>

\* the host sets or deletes an environment variable: process.env[key] = value
SetEnv(key, value) ==
    /\ env[key] # value
    /\ env' = [env EXCEPT ![key] = value]
    /\ UNCHANGED hostVars
    /\ UNCHANGED <<globalLevel, loggers, arrays, origin, calls, promises, diag, mutations, lastOp, writes>>

\* Logger.getGlobalLevel()
GetGlobalLevel == globalLevel

\* Logger.setGlobalLevel(level)
SetGlobalLevel(level) ==
    /\ globalLevel' = level
    /\ UNCHANGED hostVars
    /\ UNCHANGED <<env, loggers, arrays, origin, calls, promises, diag, mutations, lastOp, writes>>

\* loggers[n].addTransport(t)
AddTransport(n, t) ==
    /\ Len(TransportsOf(n)) < MaxTransports
    /\ arrays' = AddTransportTo(arrays, loggers[n].transports, t)
    /\ mutations' = mutations + 1
    /\ lastOp' = [op |-> "add", node |-> n, transport |-> t, before |-> TransportsOf(n)]
    /\ UNCHANGED hostVars
    /\ UNCHANGED <<globalLevel, env, loggers, origin, calls, promises, diag, writes>>

\* loggers[n].removeTransport(t)
RemoveTransport(n, t) ==
    /\ arrays' = RemoveTransportFrom(arrays, loggers[n].transports, t)
    /\ mutations' = mutations + 1
    /\ lastOp' = [op |-> "remove", node |-> n, transport |-> t, before |-> TransportsOf(n)]
    /\ UNCHANGED hostVars
    /\ UNCHANGED <<globalLevel, env, loggers, origin, calls, promises, diag, writes>>

\* loggers[n].clearTransports()
ClearTransports(n) ==
    /\ LET r == ClearTransportsOf(loggers[n], arrays)
       IN  /\ loggers' = [loggers EXCEPT ![n] = r.logger]
           /\ arrays' = r.heap
    /\ mutations' = mutations + 1
    /\ lastOp' = [op |-> "clear", node |-> n, transport |-> 0, before |-> TransportsOf(n)]
    /\ UNCHANGED hostVars
    /\ UNCHANGED <<globalLevel, env, origin, calls, promises, diag, writes>>

\* loggers[n].trace/debug/info/warn/error/fatal(message, ...args)
Log(n, level, message, args) ==
    /\ LET c == Len(calls) + 1
           r == LogCall(loggers[n], TransportsOf(n), level, message, args, c)
       IN  /\ calls' = Append(calls,
                  [node |-> n, level |-> level, message |-> message, args |-> args,
                   global |-> globalLevel,
                   after |-> lastOp,
                   transports |-> TransportsOf(n),
                   constructed |-> r.constructed,
                   entry |-> r.entry,
                   invoked |-> r.out.invoked,
                   escaped |-> r.out.escaped,
                   returned |-> ~r.out.suspended])
           /\ promises' = r.out.promises
           /\ diag' = r.out.diag
           /\ console' = r.out.console
           /\ scopeColourMap' = r.out.scopeColourMap
           /\ files' = r.out.files
           /\ loggers' = [loggers EXCEPT ![n] = r.out.logger]
           /\ arrays' = r.out.heap
    /\ UNCHANGED <<fileTransport, window, browserTransports, thrown, browserVars>>
    /\ UNCHANGED formatVars
    /\ UNCHANGED <<globalLevel, env, origin, mutations, lastOp, writes>>

\* loggers[p].child(scope, options)
Child(p, scopeArg, options) ==
    /\ LET r == ChildLogger(loggers[p], scopeArg, options, Len(loggers) + 1, arrays)
       IN  /\ loggers' = Append(loggers, r.logger)
           /\ arrays' = r.heap
    /\ origin' = Append(origin,
            [kind |-> "child", parent |-> p, scopeArg |-> scopeArg, options |-> options,
             metadata |-> EmptyObject, parentTransports |-> TransportsOf(p), env |-> env])
    /\ UNCHANGED hostVars
    /\ UNCHANGED <<globalLevel, env, calls, promises, diag, mutations, lastOp, writes>>

\* loggers[p].withMetadata(metadata)
WithMetadata(p, metadata) ==
    /\ LET r == WithMetadataLogger(loggers[p], metadata, Len(loggers) + 1, arrays)
       IN  /\ loggers' = Append(loggers, r.logger)
           /\ arrays' = r.heap
    /\ origin' = Append(origin,
            [kind |-> "withMetadata", parent |-> p, scopeArg |-> ScopeArr(<<>>),
             options |-> EmptyObject, metadata |-> metadata,
             parentTransports |-> TransportsOf(p), env |-> env])
    /\ UNCHANGED hostVars
    /\ UNCHANGED <<globalLevel, env, calls, promises, diag, mutations, lastOp, writes>>

\* new FileTransport(options)
NewFileTransport(options) ==
    /\ LET r == FileTransportConstructor(options, files)
       IN  /\ fileTransport' = r.transport
           /\ files' = r.files
    /\ UNCHANGED <<scopeColourMap, console, window, browserTransports, thrown, browserVars>>
    /\ UNCHANGED formatVars
    /\ UNCHANGED <<globalLevel, env, loggers, arrays, origin, calls, promises, diag,
                   mutations, lastOp, writes>>

\* the host gains a window object (a DOM is installed on globalThis)
DefineWindow ==
    /\ ~window
    /\ window' = TRUE
    /\ UNCHANGED <<scopeColourMap, console, fileTransport, files, browserTransports, thrown,
                   browserVars>>
    /\ UNCHANGED formatVars
    /\ UNCHANGED <<globalLevel, env, loggers, arrays, origin, calls, promises, diag,
                   mutations, lastOp, writes>>

\* the history of a transport no log() call was made on
NotLogged == [logged |-> 0, sinceClear |-> <<>>]

\* what a constructor call of a browser transport leaves: the object, or the
\* error its caller catches
Constructed(r) ==
    /\ browserTransports' = IF r.threw THEN browserTransports
                            ELSE Append(browserTransports, r.object)
    /\ thrown' = IF r.threw THEN Append(thrown, r.error) ELSE thrown
    /\ buffered' = IF r.threw THEN buffered ELSE Append(buffered, NotLogged)
    /\ UNCHANGED <<scopeColourMap, console, fileTransport, files, window>>
    /\ UNCHANGED <<storage, warned, stored, downloads>>
    /\ UNCHANGED formatVars
    /\ UNCHANGED <<globalLevel, env, loggers, arrays, origin, calls, promises, diag,
                   mutations, lastOp, writes>>

\* new BrowserFileTransport(options)
NewBrowserFileTransport(options) ==
    Constructed(BrowserFileTransportConstructor(options, window))

\* new BrowserStorageTransport(options)
NewBrowserStorageTransport(options) ==
    Constructed(BrowserStorageTransportConstructor(options, window))

\* formatter.format(entry) called directly on a ConsoleFormatter instance
\* constructed with these options: what it returned or that it threw, and the
\* static map it left
FormatEntry(options, entry) ==
    /\ LET r == Format(options, entry, scopeColourMap)
           name == Join(entry.scope)
           coloured == options.colourize /\ options.showScope /\ Len(entry.scope) > 0
       IN  /\ scopeColourMap' = r.map
           /\ lastFormat' = [called |-> TRUE, formatter |-> "ConsoleFormatter",
                            options |-> options, entry |-> entry, scope |-> entry.scope,
                            text |-> IF r.threw THEN <<>> ELSE r.text, threw |-> r.threw]
           /\ seen' = IF coloured /\ ~r.threw /\ \A k \in 1..Len(seen) : seen[k] # name
                      THEN Append(seen, name) ELSE seen
    /\ UNCHANGED <<console, fileTransport, files, window, browserTransports, thrown,
                   browserVars>>
    /\ UNCHANGED <<globalLevel, env, loggers, arrays, origin, calls, promises, diag,
                   mutations, lastOp, writes>>

\* formatter.format(entry) called directly on a JsonFormatter instance: what
\* it returned; the class has no options and no state
JsonFormatEntry(entry) ==
    /\ lastFormat' = [called |-> TRUE, formatter |-> "JsonFormatter",
                     options |-> EmptyObject, entry |-> entry, scope |-> entry.scope,
                     text |-> JsonFormat(entry), threw |-> FALSE]
    /\ UNCHANGED <<scopeColourMap, seen>>
    /\ UNCHANGED <<console, fileTransport, files, window, browserTransports, thrown,
                   browserVars>>
    /\ UNCHANGED <<globalLevel, env, loggers, arrays, origin, calls, promises, diag,
                   mutations, lastOp, writes>>

\* transport.log(entry) on the BrowserStorageTransport browserTransports[t]
StorageLog(t, entry, random, quotaExceeded) ==
    /\ browserTransports[t].class = "BrowserStorageTransport"
    /\ LET transport == browserTransports[t]
           r == BrowserStorageLog(transport, storage[transport.storage], entry, random,
                                  quotaExceeded)
       IN  /\ storage' = [storage EXCEPT ![transport.storage] = r.store]
           /\ warned' = warned \o r.warned
           /\ stored' = Append(stored, [transport |-> t, entry |-> entry, key |-> r.key,
                                        failed |-> quotaExceeded, threw |-> r.threw])
    /\ UNCHANGED <<scopeColourMap, console, fileTransport, files, window, browserTransports,
                   thrown, downloads, buffered>>
    /\ UNCHANGED formatVars
    /\ UNCHANGED <<globalLevel, env, loggers, arrays, origin, calls, promises, diag,
                   mutations, lastOp, writes>>

\* transport.log(entry) on the BrowserFileTransport browserTransports[t]
BufferLog(t, entry) ==
    /\ browserTransports[t].class = "BrowserFileTransport"
    /\ LET r == BrowserFileLog(browserTransports[t], entry)
           call == buffered[t].logged + 1
       IN  /\ browserTransports' = [browserTransports EXCEPT ![t] = r.transport]
           /\ downloads' = downloads \o
                  [i \in 1..Len(r.downloads) |->
                      [transport |-> t, call |-> call, manual |-> FALSE,
                       file |-> r.downloads[i]]]
           /\ buffered' = [buffered EXCEPT
                  ![t] = [logged |-> call,
                          sinceClear |-> Append(@.sinceClear, BrowserFileStringify(entry))]]
    /\ UNCHANGED <<scopeColourMap, console, fileTransport, files, window, thrown,
                   storage, warned, stored>>
    /\ UNCHANGED formatVars
    /\ UNCHANGED <<globalLevel, env, loggers, arrays, origin, calls, promises, diag,
                   mutations, lastOp, writes>>

\* transport.clearLogs() on the BrowserFileTransport browserTransports[t]
ClearLogs(t) ==
    /\ browserTransports[t].class = "BrowserFileTransport"
    /\ browserTransports' = [browserTransports EXCEPT ![t] = BrowserFileClearLogs(@)]
    /\ buffered' = [buffered EXCEPT ![t].sinceClear = <<>>]
    /\ UNCHANGED <<scopeColourMap, console, fileTransport, files, window, thrown,
                   storage, warned, stored, downloads>>
    /\ UNCHANGED formatVars
    /\ UNCHANGED <<globalLevel, env, loggers, arrays, origin, calls, promises, diag,
                   mutations, lastOp, writes>>

\* transport.downloadLogs() called by the user on the BrowserFileTransport
\* browserTransports[t], after its log() call of this number
ManualDownload(t) ==
    /\ browserTransports[t].class = "BrowserFileTransport"
    /\ downloads' = Append(downloads,
           [transport |-> t, call |-> buffered[t].logged, manual |-> TRUE,
            file |-> DownloadLogs(browserTransports[t])])
    /\ UNCHANGED <<scopeColourMap, console, fileTransport, files, window, browserTransports,
                   thrown, storage, warned, stored, buffered>>
    /\ UNCHANGED formatVars
    /\ UNCHANGED <<globalLevel, env, loggers, arrays, origin, calls, promises, diag,
                   mutations, lastOp, writes>>

\* transport.clearLogs() on the BrowserStorageTransport browserTransports[t]
StorageClearLogs(t) ==
    /\ browserTransports[t].class = "BrowserStorageTransport"
    /\ storage' = [storage EXCEPT
           ![browserTransports[t].storage] = BrowserStorageClearLogs(browserTransports[t], @)]
    /\ UNCHANGED <<scopeColourMap, console, fileTransport, files, window, browserTransports,
                   thrown, warned, stored, downloads, buffered>>
    /\ UNCHANGED formatVars
    /\ UNCHANGED <<globalLevel, env, loggers, arrays, origin, calls, promises, diag,
                   mutations, lastOp, writes>>

\* the promise a transport returned is fulfilled or rejected
Settle(i, outcome) ==
    /\ promises[i].state = "pending"
    /\ promises' = [promises EXCEPT ![i].state = outcome]
    /\ UNCHANGED hostVars
    /\ UNCHANGED <<globalLevel, env, loggers, arrays, origin, calls, diag, mutations, lastOp, writes>>

\* the microtask of a rejected promise: the handler given to result.catch runs
CatchHandler(i) ==
    /\ promises[i].state = "rejected"
    /\ promises[i].handled
    /\ ~promises[i].reported
    /\ diag' = Append(diag, AsyncReport(promises[i]))
    /\ promises' = [promises EXCEPT ![i].reported = TRUE]
    /\ UNCHANGED hostVars
    /\ UNCHANGED <<globalLevel, env, loggers, arrays, origin, calls, mutations, lastOp, writes>>

----------------------------------------------------------------------------
(* Scenario 1, level filtering: one logger is created with any explicit   *)
(* level or without one, the global level is set before and after,        *)
(* transports are attached before the first call, and the six severity    *)
(* methods are called                                                      *)

FilterOptionInputs ==
    {EmptyObject, [level |-> Undefined]} \cup {[level |-> l] : l \in LogLevel}

NextFilter ==
    \/ /\ loggers = <<>>
       /\ \E o \in FilterOptionInputs : NewLogger(ScopeStr("app"), o)
    \/ \E l \in LogLevel : SetGlobalLevel(l)
    \/ /\ calls = <<>>
       /\ \E n \in 1..Len(loggers) : AddTransport(n, SyncTransport)
    \/ /\ Len(calls) < MaxCalls
       /\ \E n \in 1..Len(loggers), l \in Severities : Log(n, l, "x", <<>>)

SpecFilter == Init /\ [][NextFilter]_vars

----------------------------------------------------------------------------
(* Scenario 2, dispatch: one logger, transports of each kind attached in  *)
(* any order, logging calls, and the promises of the asynchronous         *)
(* transports settling                                                    *)

DispatchOptionInputs == {EmptyObject, [metadata |-> Meta([a |-> 1, b |-> 2])]}

\* the severity method called, its message and its extra arguments
DispatchCallInputs ==
    {[level |-> DEBUG, message |-> "x", args |-> <<>>],
     [level |-> INFO, message |-> "x", args |-> <<1, 2>>],
     [level |-> ERROR, message |-> "y", args |-> <<2, 1, 2>>]}

NextDispatch ==
    \/ /\ loggers = <<>>
       /\ \E o \in DispatchOptionInputs : NewLogger(ScopeStr("app"), o)
    \/ \E n \in 1..Len(loggers), t \in UserTransports : AddTransport(n, t)
    \/ /\ Len(calls) < MaxCalls
       /\ \E n \in 1..Len(loggers), i \in DispatchCallInputs :
              Log(n, i.level, i.message, i.args)
    \/ \E i \in 1..Len(promises), o \in {"fulfilled", "rejected"} : Settle(i, o)
    \/ \E i \in 1..Len(promises) : CatchHandler(i)

SpecDispatch == Init /\ [][NextDispatch]_vars

\* the promises one behaviour of the dispatch scenario can create
MaxPromises == MaxCalls * MaxTransports

\* the microtask queue runs the handler of every rejected promise
SpecDispatchFair ==
    SpecDispatch /\ \A i \in 1..MaxPromises : WF_vars(i <= Len(promises) /\ CatchHandler(i))

----------------------------------------------------------------------------
(* Scenario 3, transport lists: a logger is created, loggers are derived  *)
(* from it with child() and withMetadata(), and the transport lists of    *)
(* all of them are changed                                                *)

NextLists ==
    \/ /\ loggers = <<>>
       /\ NewLogger(ScopeStr("app"), EmptyObject)
    \/ /\ Len(loggers) < ListLoggers
       /\ \E p \in 1..Len(loggers) : Child(p, ScopeStr("api"), EmptyObject)
    \/ /\ Len(loggers) < ListLoggers
       /\ \E p \in 1..Len(loggers) : WithMetadata(p, [b |-> 3, c |-> 4])
    \/ /\ mutations < ListMutations
       /\ \E n \in 1..Len(loggers) : AddTransport(n, SyncTransport)
    \/ /\ mutations < ListMutations
       /\ \E n \in 1..Len(loggers), t \in {SyncTransport, ConsoleTransport(1)} :
              RemoveTransport(n, t)
    \/ /\ mutations < ListMutations
       /\ \E n \in 1..Len(loggers) : ClearTransports(n)

SpecLists == Init /\ [][NextLists]_vars

----------------------------------------------------------------------------
(* Scenario 4, derivation: loggers are created and derived with child()   *)
(* and withMetadata() in chains, and they log                             *)

DeriveScopeInputs == {ScopeStr("app"), ScopeArr(<<>>)}
DeriveOptionInputs == {EmptyObject, [metadata |-> Meta([a |-> 1, b |-> 2])]}
DeriveChildScopeInputs == {ScopeStr("api"), ScopeArr(<<"auth", "login">>)}
DeriveChildOptionInputs ==
    {EmptyObject, [metadata |-> Meta([b |-> 3, c |-> 4])], [level |-> ERROR]}
DeriveMetadataInputs == {[b |-> 3, c |-> 4], EmptyObject}

NextDerive ==
    \/ /\ Len(loggers) < DeriveLoggers
       /\ \E s \in DeriveScopeInputs, o \in DeriveOptionInputs : NewLogger(s, o)
    \/ /\ Len(loggers) < DeriveLoggers
       /\ \E p \in 1..Len(loggers), s \in DeriveChildScopeInputs,
             o \in DeriveChildOptionInputs : Child(p, s, o)
    \/ /\ Len(loggers) < DeriveLoggers
       /\ \E p \in 1..Len(loggers), m \in DeriveMetadataInputs : WithMetadata(p, m)
    \/ /\ Len(calls) < MaxCalls
       /\ \E n \in 1..Len(loggers) : Log(n, INFO, "x", <<1, 2>>)

SpecDerive == Init /\ [][NextDerive]_vars

----------------------------------------------------------------------------
(* Scenario 5, attachment: the transport list of one logger is built and   *)
(* taken apart with addTransport, removeTransport (of attached and of      *)
(* unattached transports) and clearTransports, and a severity method runs  *)

AttachOptionInputs == {EmptyObject, [level |-> TRACE]}
AttachAddInputs == {SyncTransport, ConsoleTransport(1)}
AttachRemoveInputs == {SyncTransport, ConsoleTransport(1), ThrowingTransport}

NextAttach ==
    \/ /\ loggers = <<>>
       /\ \E o \in AttachOptionInputs : NewLogger(ScopeStr("app"), o)
    \/ /\ mutations < ListMutations
       /\ \E n \in 1..Len(loggers), t \in AttachAddInputs : AddTransport(n, t)
    \/ /\ mutations < ListMutations
       /\ \E n \in 1..Len(loggers), t \in AttachRemoveInputs : RemoveTransport(n, t)
    \/ /\ mutations < ListMutations
       /\ \E n \in 1..Len(loggers) : ClearTransports(n)
    \/ /\ Len(calls) < MaxCalls
       /\ \E n \in 1..Len(loggers), l \in Severities : Log(n, l, "x", <<>>)

SpecAttach == Init /\ [][NextAttach]_vars

----------------------------------------------------------------------------
(* Scenario 6, ordering: one logger makes several logging calls with      *)
(* different messages, and transports are attached before and between them *)

NextOrder ==
    \/ /\ loggers = <<>>
       /\ NewLogger(ScopeStr("app"), EmptyObject)
    \/ \E n \in 1..Len(loggers), t \in {SyncTransport, AsyncTransport} : AddTransport(n, t)
    \/ /\ Len(calls) < OrderCalls
       /\ \E n \in 1..Len(loggers), l \in {DEBUG, INFO}, m \in {"x", "y"} :
              Log(n, l, m, <<>>)

SpecOrder == Init /\ [][NextOrder]_vars

----------------------------------------------------------------------------
(* Scenario 7, registry: the global level is set at any moment between     *)
(* constructions, derivations, transport list operations and logging calls *)

RegistryOptionInputs == {EmptyObject, [level |-> DEBUG]}
RegistryLevelInputs == {TRACE, ERROR, OFF}

\* the operations other than setGlobalLevel made so far
RegistryOpsMade == Len(loggers) + mutations + Len(calls)

NextRegistry ==
    \/ \E l \in RegistryLevelInputs : SetGlobalLevel(l)
    \/ /\ RegistryOpsMade < RegistryOps
       /\ \E o \in RegistryOptionInputs : NewLogger(ScopeStr("app"), o)
    \/ /\ RegistryOpsMade < RegistryOps
       /\ \E p \in 1..Len(loggers) : Child(p, ScopeStr("api"), EmptyObject)
    \/ /\ RegistryOpsMade < RegistryOps
       /\ \E p \in 1..Len(loggers) : WithMetadata(p, [b |-> 3, c |-> 4])
    \/ /\ RegistryOpsMade < RegistryOps
       /\ \E n \in 1..Len(loggers) : AddTransport(n, SyncTransport)
    \/ /\ RegistryOpsMade < RegistryOps
       /\ \E n \in 1..Len(loggers) : RemoveTransport(n, ConsoleTransport(n))
    \/ /\ RegistryOpsMade < RegistryOps
       /\ \E n \in 1..Len(loggers) : ClearTransports(n)
    \/ /\ RegistryOpsMade < RegistryOps
       /\ \E n \in 1..Len(loggers) : Log(n, ERROR, "x", <<>>)

SpecRegistry == Init /\ [][NextRegistry]_vars

----------------------------------------------------------------------------
(* Scenario 8, environment: the host sets LOG_LEVEL, NO_COLOUR and         *)
(* NODE_ENV, the global level is set, a logger is constructed and logs     *)

EnvLevelInputs == {NoEnv, "", "debug", "Info", "OFF", "verbose", "0", "6"}
EnvNoColourInputs == {NoEnv, "1"}
EnvNodeEnvInputs == {NoEnv, "test"}
EnvOptionInputs ==
    {EmptyObject, [level |-> WARN], [colourize |-> FALSE], [timestamp |-> FALSE]}

NextEnv ==
    \/ \E v \in EnvLevelInputs : SetEnv("LOG_LEVEL", v)
    \/ \E v \in EnvNoColourInputs : SetEnv("NO_COLOUR", v)
    \/ \E v \in EnvNodeEnvInputs : SetEnv("NODE_ENV", v)
    \/ /\ loggers = <<>>
       /\ \E l \in {DEBUG, ERROR} : SetGlobalLevel(l)
    \/ /\ loggers = <<>>
       /\ \E o \in EnvOptionInputs : NewLogger(ScopeStr("app"), o)
    \/ /\ Len(calls) < MaxCalls
       /\ \E n \in 1..Len(loggers), l \in Severities : Log(n, l, "x", <<>>)

SpecEnv == Init /\ [][NextEnv]_vars

----------------------------------------------------------------------------
(* Scenario 9, aliasing: loggers are derived from a root, they log, and    *)
(* the holders of references write: the caller to the scope array and the  *)
(* metadata mapping it passed in, a transport to the scope and to the      *)
(* metadata of an entry it received                                        *)

AliasScopeInputs == {ScopeStr("app"), ScopeArr(<<"a", "b">>)}
AliasOptionInputs == {EmptyObject, [metadata |-> Meta([a |-> 1, b |-> 2])]}
AliasChildOptionInputs == {EmptyObject, [metadata |-> Meta([b |-> 3, c |-> 4])]}

\* the constructions, logging calls and outside writes made so far
AliasOpsMade == Len(loggers) + Len(calls) + writes

NextAlias ==
    \/ /\ loggers = <<>>
       /\ \E sc \in AliasScopeInputs, o \in AliasOptionInputs : NewLogger(sc, o)
    \/ /\ AliasOpsMade < AliasOps
       /\ \E p \in 1..Len(loggers), o \in AliasChildOptionInputs :
              Child(p, ScopeStr("api"), o)
    \/ /\ AliasOpsMade < AliasOps
       /\ \E p \in 1..Len(loggers) : WithMetadata(p, [b |-> 3, c |-> 4])
    \/ /\ AliasOpsMade < AliasOps
       /\ \E n \in 1..Len(loggers) : MutateMetadata(n, [z |-> 9])
    \/ /\ AliasOpsMade < AliasOps
       /\ \E n \in 1..Len(loggers) : MutateScope(n, "zz")
    \/ /\ AliasOpsMade < AliasOps
       /\ \E i \in 1..Len(calls) : MutateEntryScope(i, "zz")
    \/ /\ AliasOpsMade < AliasOps
       /\ \E n \in 1..Len(loggers) : Log(n, INFO, "x", <<>>)

SpecAlias == Init /\ [][NextAlias]_vars

----------------------------------------------------------------------------
(* Scenario 10, file: a logger with absent, empty or filled metadata, a     *)
(* FileTransport with or without maxSize and with any maxFiles attached to  *)
(* it, and logging calls with and without extra arguments                   *)

FileOptionInputs ==
    {EmptyObject, [metadata |-> Meta(EmptyObject)], [metadata |-> Meta([a |-> 1])]}
FileTransportInputs ==
    {[filename |-> "app.log", maxSize |-> ms, maxFiles |-> mf] :
        ms \in {0, 1}, mf \in {0, 1, 2, 3}}
FileCallInputs ==
    {[level |-> INFO, message |-> "x", args |-> <<>>],
     [level |-> ERROR, message |-> "y", args |-> <<1, 2>>]}

NextFile ==
    \/ /\ loggers = <<>>
       /\ \E o \in FileOptionInputs : NewLogger(ScopeStr("app"), o)
    \/ /\ ~fileTransport.constructed
       /\ \E o \in FileTransportInputs : NewFileTransport(o)
    \/ /\ fileTransport.constructed
       /\ \E n \in 1..Len(loggers) :
              /\ \A j \in 1..Len(TransportsOf(n)) : TransportsOf(n)[j] # FileTransport
              /\ AddTransport(n, FileTransport)
    \/ /\ Len(calls) < FileCalls
       /\ \E n \in 1..Len(loggers), c \in FileCallInputs :
              Log(n, c.level, c.message, c.args)

SpecFile == Init /\ [][NextFile]_vars

----------------------------------------------------------------------------
(* Scenario 11, formatting: ConsoleFormatter instances constructed with     *)
(* different options and a JsonFormatter format entries with and without a *)
(* scope, directly and in any order; three services are formatted in any    *)
(* order, and once they have their colours further services follow until    *)
(* the palette is used up and begins again                                  *)

\* the options of the ConsoleFormatter instances
FormatterInputs ==
    {ConsoleFormatterOptions,
     [ConsoleFormatterOptions EXCEPT !.timestamp = FALSE],
     [ConsoleFormatterOptions EXCEPT !.colourize = FALSE],
     [ConsoleFormatterOptions EXCEPT !.showScope = FALSE],
     [ConsoleFormatterOptions EXCEPT !.timestamp = FALSE, !.colourize = FALSE,
                                     !.showScope = FALSE]}

\* the entries of these scopes that are formatted
FormatEntryInputs(scopes) ==
    {[level |-> c.level, message |-> c.message, timestamp |-> c.timestamp, scope |-> sc,
      scopeCopied |-> TRUE, args |-> c.args, metadata |-> c.metadata] :
        sc \in scopes,
        c \in {[level |-> INFO, message |-> "x", timestamp |-> 1, args |-> <<>>,
                metadata |-> MetaUndefined],
               [level |-> INFO, message |-> "x", timestamp |-> 1, args |-> <<>>,
                metadata |-> Meta(EmptyObject)],
               [level |-> FATAL, message |-> "y", timestamp |-> 2, args |-> <<1>>,
                metadata |-> Meta([a |-> 1])]}}

NextFormat ==
    \/ \E o \in FormatterInputs,
          entry \in FormatEntryInputs({<<>>, <<"app">>, <<"db">>, <<"a", "b">>}) :
          FormatEntry(o, entry)
    \/ /\ Len(seen) >= 3
       /\ Len(seen) < FormatNames
       /\ \E o \in FormatterInputs,
             entry \in FormatEntryInputs({<<"svc", ToString(Len(seen) + 1)>>}) :
             FormatEntry(o, entry)
    \/ \E o \in FormatterInputs, i \in 4..Len(seen) :
          \E entry \in FormatEntryInputs({<<"svc", ToString(i)>>}) : FormatEntry(o, entry)
    \/ \E entry \in FormatEntryInputs({<<>>, <<"app">>, <<"a", "b">>}) :
          JsonFormatEntry(entry)

SpecFormat == Init /\ [][NextFormat]_vars

----------------------------------------------------------------------------
(* Scenario 12, host: loggers are created, derived with child() and         *)
(* withMetadata(), their lists changed and they log, while browser          *)
(* transports are constructed in a host without window and after the host   *)
(* gained one                                                               *)

HostOptionInputs == {EmptyObject, [metadata |-> Meta([a |-> 1]), level |-> ERROR]}
BrowserFileInputs ==
    {[filename |-> "", autoDownload |-> FALSE, maxLogs |-> 0],
     [filename |-> "web.log", autoDownload |-> TRUE, maxLogs |-> 2]}
BrowserStorageInputs ==
    {[keyPrefix |-> <<>>, maxEntries |-> 0, storage |-> "localStorage"],
     [keyPrefix |-> <<"l", "i", "l", "y">>, maxEntries |-> 2, storage |-> "sessionStorage"]}

\* the constructions, list operations and logging calls made so far
HostOpsMade ==
    Len(loggers) + mutations + Len(calls) + Len(browserTransports) + Len(thrown)

NextHost ==
    \/ /\ HostOpsMade < HostOps
       /\ \E o \in HostOptionInputs : NewLogger(ScopeStr("app"), o)
    \/ /\ HostOpsMade < HostOps
       /\ \E p \in 1..Len(loggers) : Child(p, ScopeStr("api"), EmptyObject)
    \/ /\ HostOpsMade < HostOps
       /\ \E p \in 1..Len(loggers) : WithMetadata(p, [b |-> 3, c |-> 4])
    \/ /\ HostOpsMade < HostOps
       /\ \E n \in 1..Len(loggers) : AddTransport(n, SyncTransport)
    \/ /\ HostOpsMade < HostOps
       /\ \E n \in 1..Len(loggers) : Log(n, ERROR, "x", <<>>)
    \/ DefineWindow
    \/ /\ HostOpsMade < HostOps
       /\ \E o \in BrowserFileInputs : NewBrowserFileTransport(o)
    \/ /\ HostOpsMade < HostOps
       /\ \E o \in BrowserStorageInputs : NewBrowserStorageTransport(o)

SpecHost == Init /\ [][NextHost]_vars

----------------------------------------------------------------------------
(* Scenario 13, override: the host sets and unsets LOG_LEVEL between the    *)
(* constructions of loggers with and without an explicit level, their       *)
(* derivations with and without a level override, and their logging calls   *)

OverrideLevelInputs == {NoEnv, "debug", "Error", "OFF"}
OverrideOptionInputs == {EmptyObject, [level |-> WARN]}
OverrideChildOptionInputs == {EmptyObject, [level |-> TRACE]}

NextOverride ==
    \/ \E v \in OverrideLevelInputs : SetEnv("LOG_LEVEL", v)
    \/ /\ loggers = <<>>
       /\ \E o \in OverrideOptionInputs : NewLogger(ScopeStr("app"), o)
    \/ /\ Len(loggers) < OverrideLoggers
       /\ \E p \in 1..Len(loggers), o \in OverrideChildOptionInputs :
              Child(p, ScopeStr("api"), o)
    \/ /\ Len(loggers) < OverrideLoggers
       /\ \E p \in 1..Len(loggers) : WithMetadata(p, [b |-> 3, c |-> 4])
    \/ /\ Len(calls) < MaxCalls
       /\ \E n \in 1..Len(loggers), l \in {DEBUG, WARN} : Log(n, l, "x", <<>>)

SpecOverride == Init /\ [][NextOverride]_vars

----------------------------------------------------------------------------
(* Scenario 14, agreement: a root with a level, without one or with the     *)
(* level undefined, loggers derived from it with child() with and without   *)
(* a level override, the global level set at any moment, and calls of       *)
(* every severity                                                           *)

AgreeOptionInputs == {EmptyObject, [level |-> WARN], [level |-> Undefined]}
AgreeChildOptionInputs == {EmptyObject, [level |-> DEBUG]}
AgreeLevelInputs == {TRACE, ERROR}

NextAgree ==
    \/ \E l \in AgreeLevelInputs : SetGlobalLevel(l)
    \/ /\ loggers = <<>>
       /\ \E o \in AgreeOptionInputs : NewLogger(ScopeStr("app"), o)
    \/ /\ Len(loggers) < AgreeLoggers
       /\ \E p \in 1..Len(loggers), o \in AgreeChildOptionInputs :
              Child(p, ScopeStr("api"), o)
    \/ /\ Len(calls) < MaxCalls
       /\ \E n \in 1..Len(loggers), l \in Severities : Log(n, l, "x", <<>>)

SpecAgree == Init /\ [][NextAgree]_vars

----------------------------------------------------------------------------
(* Scenario 15, re-entrancy: one logger with transports that, while they    *)
(* are invoked, add a transport to the logger, remove themselves or another *)
(* transport from it or clear its list, attached in any order               *)

ReentrantAddInputs ==
    {AddingTransport, RemovingTransport, EvictingTransport, ClearingTransport, SyncTransport}

NextReentrant ==
    \/ /\ loggers = <<>>
       /\ NewLogger(ScopeStr("app"), EmptyObject)
    \/ /\ mutations < ListMutations
       /\ \E n \in 1..Len(loggers), t \in ReentrantAddInputs :
              /\ \A j \in 1..Len(TransportsOf(n)) : TransportsOf(n)[j] # t
              /\ AddTransport(n, t)
    \/ /\ Len(calls) < ReentrantCalls
       /\ \E n \in 1..Len(loggers) : Log(n, INFO, "x", <<>>)

SpecReentrant == Init /\ [][NextReentrant]_vars

----------------------------------------------------------------------------
(* Scenario 16, storage: in a host that gained a window,                    *)
(* BrowserStorageTransports are constructed and entries are logged to them; *)
(* the clock may or may not have ticked between two entries, Math.random    *)
(* returns what it returns and a write may exceed the quota                 *)

StorageOptionInputs ==
    {[keyPrefix |-> <<>>, maxEntries |-> 0, storage |-> "localStorage"],
     [keyPrefix |-> <<"a", "p", "p">>, maxEntries |-> 1, storage |-> "localStorage"],
     [keyPrefix |-> <<"a", "p", "p">>, maxEntries |-> 2, storage |-> "sessionStorage"]}

\* entry.timestamp.getTime(): milliseconds, written with the same number of
\* digits for every entry
StorageTimeInputs == {11, 12}

\* Math.random().toString(36).substring(2, 9)
StorageRandomInputs == {<<"4", "f">>, <<"q", "0">>}

\* an entry logged at a time
StorageEntry(time) ==
    [level |-> INFO, message |-> "x", timestamp |-> time, scope |-> <<"app">>,
     scopeCopied |-> TRUE, args |-> <<>>, metadata |-> MetaUndefined]

NextStorage ==
    \/ DefineWindow
    \/ /\ Len(browserTransports) + Len(thrown) < StorageTransports
       /\ \E o \in StorageOptionInputs : NewBrowserStorageTransport(o)
    \/ /\ Len(stored) < StorageCalls
       /\ \E t \in 1..Len(browserTransports), time \in StorageTimeInputs,
             random \in StorageRandomInputs, quotaExceeded \in BOOLEAN :
             /\ \A i \in 1..Len(stored) : time >= stored[i].entry.timestamp
             /\ StorageLog(t, StorageEntry(time), random, quotaExceeded)
    \/ \E t \in 1..Len(browserTransports) : StorageClearLogs(t)

SpecStorage == Init /\ [][NextStorage]_vars

----------------------------------------------------------------------------
(* Scenario 17, buffer: in a host that gained a window one                  *)
(* BrowserFileTransport is constructed, entries are logged to it and its    *)
(* buffer is cleared at any moment; during the first calls the user also    *)
(* downloads the buffer by hand                                             *)

BufferOptionInputs ==
    {[filename |-> "", autoDownload |-> TRUE, maxLogs |-> 100],
     [filename |-> "", autoDownload |-> TRUE, maxLogs |-> 0],
     [filename |-> "web.log", autoDownload |-> TRUE, maxLogs |-> 2],
     [filename |-> "web.log", autoDownload |-> FALSE, maxLogs |-> 2]}

\* the entry of the n-th log() call on a transport
BufferEntry(n) ==
    [level |-> INFO, message |-> "x", timestamp |-> n, scope |-> <<"app">>,
     scopeCopied |-> TRUE, args |-> <<>>, metadata |-> MetaUndefined]

NextBuffer ==
    \/ DefineWindow
    \/ /\ window
       /\ browserTransports = <<>>
       /\ \E o \in BufferOptionInputs : NewBrowserFileTransport(o)
    \/ \E t \in 1..Len(browserTransports) :
          /\ buffered[t].logged < BufferCalls
          /\ BufferLog(t, BufferEntry(buffered[t].logged + 1))
    \/ \E t \in 1..Len(browserTransports) : ClearLogs(t)
    \/ \E t \in 1..Len(browserTransports) :
          /\ Len(downloads) < BufferDownloads
          /\ buffered[t].logged <= BufferDownloads
          /\ ManualDownload(t)

SpecBuffer == Init /\ [][NextBuffer]_vars

----------------------------------------------------------------------------
(* Scenario 18, palette: ConsoleFormatter instances constructed with        *)
(* different options format entries of more scope names than the palette    *)
(* has colours; a name formatted before is formatted again at any moment,   *)
(* by any instance                                                          *)

\* the options of the formatter instances
PaletteFormatterInputs ==
    {ConsoleFormatterOptions,
     [ConsoleFormatterOptions EXCEPT !.timestamp = FALSE],
     [ConsoleFormatterOptions EXCEPT !.colourize = FALSE]}

\* the scope of the i-th service that logs
PaletteScope(i) == <<"svc", ToString(i)>>

\* an entry of a scope
PaletteEntry(scope) ==
    [level |-> INFO, message |-> "x", timestamp |-> 1, scope |-> scope,
     scopeCopied |-> TRUE, args |-> <<>>, metadata |-> MetaUndefined]

NextPalette ==
    \/ /\ Len(seen) < PaletteNames
       /\ \E o \in PaletteFormatterInputs :
             FormatEntry(o, PaletteEntry(PaletteScope(Len(seen) + 1)))
    \/ \E o \in PaletteFormatterInputs, i \in 1..Len(seen) :
          FormatEntry(o, PaletteEntry(PaletteScope(i)))

SpecPalette == Init /\ [][NextPalette]_vars

----------------------------------------------------------------------------
(* All scenarios together *)

Next ==
    \/ NextFilter \/ NextDispatch \/ NextLists \/ NextDerive
    \/ NextAttach \/ NextOrder \/ NextRegistry \/ NextEnv \/ NextAlias
    \/ NextFile \/ NextFormat \/ NextHost \/ NextOverride
    \/ NextAgree \/ NextReentrant \/ NextStorage \/ NextBuffer \/ NextPalette

Spec == Init /\ [][Next]_vars

----------------------------------------------------------------------------
(* Claims *)

\* the effective level of the logger of call c at the moment of the call
LevelAtCall(c) ==
    LET level == loggers[c.node].options.level
    IN  IF level = Undefined THEN c.global ELSE level

\* call c invoked each element of the transport list once, in list order
InvokedEachOnce(c) ==
    /\ Len(c.invoked) = Len(c.transports)
    /\ \A j \in 1..Len(c.transports) : c.invoked[j].transport = c.transports[j]

\* the reports on console.error for the transport at position j of call i
ReportsFor(i, j) == {k \in 1..Len(diag) : diag[k].call = i /\ diag[k].pos = j}

\* the promises returned by the transport at position j of call i
PromisesFor(i, j) == {k \in 1..Len(promises) : promises[k].call = i /\ promises[k].pos = j}

\* C1: level filtering. A call at severity L on a logger with effective level E
\* invokes every attached transport exactly once, with an entry of level L,
\* when L >= E; when L < E it invokes no transport and constructs no entry.
C1_LevelFiltering ==
    \A i \in 1..Len(calls) :
        LET c == calls[i]
            E == LevelAtCall(c)
        IN  E \in LogLevel =>
                IF c.level >= E
                THEN /\ c.constructed
                     /\ InvokedEachOnce(c)
                     /\ \A j \in 1..Len(c.invoked) : c.invoked[j].entry.level = c.level
                ELSE /\ ~c.constructed
                     /\ c.entry = NoEntry
                     /\ c.invoked = <<>>

\* a call at exactly the effective level reached two transports
C1_Witness ==
    \E i \in 1..Len(calls) :
        /\ calls[i].level = LevelAtCall(calls[i])
        /\ Len(calls[i].transports) = 2
        /\ Len(calls[i].invoked) = 2

\* C2: the global level fallback is live. A logger constructed without an
\* explicit level filters every later call against the global level at the
\* moment of that call.
C2_GlobalFallbackLive ==
    \A i \in 1..Len(calls) :
        LET c == calls[i]
        IN  (origin[c.node].kind = "new" /\ "level" \notin DOMAIN origin[c.node].options)
                => (c.constructed <=> c.level >= c.global)

\* C3: transport isolation on synchronous failure. A call that passes the
\* filter invokes every transport of the list exactly once, the throwing ones
\* and the ones after them included, and no exception escapes the call.
C3_TransportIsolation ==
    \A i \in 1..Len(calls) :
        calls[i].constructed => (InvokedEachOnce(calls[i]) /\ ~calls[i].escaped)

\* a call reached a transport attached after a throwing one
C3_Witness ==
    \E i \in 1..Len(calls) :
        /\ calls[i].constructed
        /\ \E j \in 1..Len(calls[i].invoked) :
              /\ calls[i].invoked[j].transport = ThrowingTransport
              /\ j < Len(calls[i].invoked)
              /\ calls[i].invoked[j + 1].transport # ThrowingTransport

\* C4: non-blocking fan-out. Whatever the state of a promise a transport
\* returned (pending, fulfilled, rejected), the call it belongs to has returned
\* and has invoked every transport after the one that returned the promise.
C4_NonBlockingFanOut ==
    \A k \in 1..Len(promises) :
        LET c == calls[promises[k].call]
        IN  /\ c.returned
            /\ InvokedEachOnce(c)
            /\ c.invoked[promises[k].pos].transport = promises[k].transport

\* a promise is still pending, the call has returned, and a transport after
\* the asynchronous one was invoked
C4_Witness ==
    \E k \in 1..Len(promises) :
        /\ promises[k].state = "pending"
        /\ calls[promises[k].call].returned
        /\ promises[k].pos < Len(calls[promises[k].call].invoked)

\* the reports of every transport invocation: one for a synchronous throw, one
\* for a promise whose rejection handler ran, none otherwise; every promise has
\* a rejection handler; every report belongs to an invocation
C5_ReportCounts ==
    /\ \A i \in 1..Len(calls) : \A j \in 1..Len(calls[i].invoked) :
          LET result == TransportLog(calls[i].invoked[j].transport)
              n == Cardinality(ReportsFor(i, j))
          IN  CASE result = "throw" -> n = 1 /\ PromisesFor(i, j) = {}
                [] result = "promise" ->
                      /\ Cardinality(PromisesFor(i, j)) = 1
                      /\ \A k \in PromisesFor(i, j) :
                            /\ promises[k].handled
                            /\ promises[k].reported => promises[k].state = "rejected"
                            /\ n = IF promises[k].reported THEN 1 ELSE 0
                [] OTHER -> n = 0 /\ PromisesFor(i, j) = {}
    /\ \A k \in 1..Len(diag) :
          /\ diag[k].call \in 1..Len(calls)
          /\ diag[k].pos \in 1..Len(calls[diag[k].call].invoked)

\* C5: every transport failure is reported exactly once on console.error: a
\* synchronous throw during the call, a rejected promise eventually; a
\* transport that completes produces no report and no rejection is unobserved.
C5_FailuresReportedOnce ==
    /\ []C5_ReportCounts
    /\ \A k \in 1..MaxPromises :
          (k <= Len(promises) /\ promises[k].state = "rejected")
              ~> (k <= Len(promises) /\ promises[k].reported)

\* one call produced a report for a synchronous throw and, later, a report
\* for a promise that rejected
C5_Witness ==
    /\ \E k \in 1..Len(diag) : diag[k].text = "transport error:"
    /\ \E k \in 1..Len(promises) :
          /\ promises[k].reported
          /\ Cardinality(ReportsFor(promises[k].call, promises[k].pos)) = 1

\* the logger created by the step, when the step created one by the given
\* kind of derivation; 0 otherwise
Derived(kind) ==
    IF Len(loggers') = Len(loggers) + 1 /\ origin'[Len(loggers')].kind = kind
    THEN Len(loggers')
    ELSE 0

\* C6: withMetadata preserves transports. The logger returned by
\* withMetadata(extra) has the transport sequence of the receiver at derivation
\* time: the same instances in the same order.
C6_WithMetadataPreservesTransports ==
    [][Derived("withMetadata") # 0 =>
          arrays'[loggers'[Derived("withMetadata")].transports]
              = arrays[loggers[origin'[Derived("withMetadata")].parent].transports]]_vars

\* C7: child transport independence. An addTransport, removeTransport or
\* clearTransports call changes the transport sequence of at most the logger
\* it is called on: a call on a child changes neither the sequence of the
\* parent nor that of another child, a call on the parent changes no child.
C7_ChildTransportIndependence ==
    [][mutations' # mutations =>
          \A n \in 1..Len(loggers) : \A m \in 1..Len(loggers) :
              (n # m /\ arrays'[loggers'[n].transports] # arrays[loggers[n].transports])
                  => arrays'[loggers'[m].transports] = arrays[loggers[m].transports]]_vars

\* two children of one parent: the list of the first was changed, the lists of
\* the parent and of the second child still are what the parent had
C7_Witness ==
    \E n \in 1..Len(loggers) : \E m \in 1..Len(loggers) :
        /\ n # m
        /\ origin[n].kind = "child" /\ origin[m].kind = "child"
        /\ origin[n].parent = origin[m].parent
        /\ mutations > 0
        /\ TransportsOf(n) # origin[n].parentTransports
        /\ TransportsOf(m) = origin[m].parentTransports
        /\ TransportsOf(origin[n].parent) = origin[n].parentTransports

\* C8: child transport inheritance. Immediately after parent.child(...) the
\* transport sequence of the child is element for element that of the parent;
\* the console transport the child created for itself is not in it.
C8_ChildTransportInheritance ==
    [][Derived("child") # 0 =>
          LET k == Derived("child")
              inherited == arrays'[loggers'[k].transports]
          IN  /\ inherited = arrays[loggers[origin'[k].parent].transports]
              /\ \A j \in 1..Len(inherited) : inherited[j] # ConsoleTransport(k)]_vars

\* a child of a parent that holds one transport twice, and a child of a
\* parent with an empty list
C8_Witness ==
    /\ \E n \in 1..Len(loggers) :
          /\ origin[n].kind = "child"
          /\ \E i \in 1..Len(origin[n].parentTransports) :
                \E j \in 1..Len(origin[n].parentTransports) :
                    i # j /\ origin[n].parentTransports[i] = origin[n].parentTransports[j]
          /\ TransportsOf(n) = origin[n].parentTransports
    /\ \E n \in 1..Len(loggers) :
          /\ origin[n].kind = "child"
          /\ origin[n].parentTransports = <<>>
          /\ TransportsOf(n) = <<>>

\* a scope argument as a sequence: a single string is a one-element sequence
AsSequence(scopeArg) == IF scopeArg.isArray THEN scopeArg.arr ELSE <<scopeArg.str>>

\* the scope of the root of logger n followed by the extra scopes of the
\* child() derivations that lead to n, in derivation order
RECURSIVE ComposedScope(_)
ComposedScope(n) ==
    CASE origin[n].kind = "new" -> AsSequence(origin[n].scopeArg)
      [] origin[n].kind = "child" ->
            ComposedScope(origin[n].parent) \o AsSequence(origin[n].scopeArg)
      [] OTHER -> ComposedScope(origin[n].parent)

\* C9: scope composition. Every entry a logger produces has the scope of the
\* root followed by all extra scopes of the child() chain in derivation order.
C9_ScopeComposition ==
    \A i \in 1..Len(calls) :
        calls[i].constructed =>
            /\ calls[i].entry.scope = ComposedScope(calls[i].node)
            /\ \A j \in 1..Len(calls[i].invoked) :
                  calls[i].invoked[j].entry.scope = ComposedScope(calls[i].node)

\* root "app", child("api"), child(["auth", "login"]): a transport received an
\* entry with scope app, api, auth, login
C9_Witness ==
    \E i \in 1..Len(calls) :
        /\ calls[i].invoked # <<>>
        /\ calls[i].invoked[1].entry.scope = <<"app", "api", "auth", "login">>
        /\ origin[calls[i].node].kind = "child"
        /\ origin[origin[calls[i].node].parent].kind = "child"

\* C10: metadata merge precedence. Entries logged by node.withMetadata(extra)
\* carry the metadata of the receiver (the empty mapping when it has none)
\* overridden key by key by extra, and no other key.
C10_MetadataMergePrecedence ==
    \A i \in 1..Len(calls) :
        LET n == calls[i].node
            extra == origin[n].metadata
            received == GetMetadata(loggers[origin[n].parent].options)
            base == IF received.def THEN received.map ELSE EmptyObject
            carried == calls[i].entry.metadata
        IN  (calls[i].constructed /\ origin[n].kind = "withMetadata") =>
                /\ carried.def
                /\ DOMAIN carried.map = (DOMAIN base) \cup (DOMAIN extra)
                /\ \A k \in DOMAIN extra : carried.map[k] = extra[k]
                /\ \A k \in (DOMAIN base) \ (DOMAIN extra) : carried.map[k] = base[k]
                /\ \A j \in 1..Len(calls[i].invoked) :
                      calls[i].invoked[j].entry.metadata = carried

\* {a: 1, b: 2} with {b: 3, c: 4}: a transport received {a: 1, b: 3, c: 4}
C10_Witness ==
    \E i \in 1..Len(calls) :
        /\ origin[calls[i].node].kind = "withMetadata"
        /\ origin[calls[i].node].metadata = [b |-> 3, c |-> 4]
        /\ GetMetadata(loggers[origin[calls[i].node].parent].options) = Meta([a |-> 1, b |-> 2])
        /\ calls[i].invoked # <<>>
        /\ calls[i].invoked[1].entry.metadata = Meta([a |-> 1, b |-> 3, c |-> 4])

\* C11: OFF suppresses everything. On a logger whose level is OFF every one of
\* trace .. fatal invokes no transport and constructs no entry, whatever the
\* global level and the attached transports are.
C11_OffSuppressesEverything ==
    \A i \in 1..Len(calls) :
        loggers[calls[i].node].options.level = OFF =>
            /\ calls[i].invoked = <<>>
            /\ ~calls[i].constructed
            /\ diag = <<>>

\* fatal() on a logger with level OFF and two transports, the global level
\* being TRACE at the call
C11_Witness ==
    \E i \in 1..Len(calls) :
        /\ loggers[calls[i].node].options.level = OFF
        /\ calls[i].level = FATAL
        /\ calls[i].global = TRACE
        /\ Len(calls[i].transports) = 2
        /\ calls[i].invoked = <<>>

\* C12: an explicit level wins over the global level. A logger constructed
\* with an explicit options.level L emits exactly the severities >= L on every
\* call, whatever the global level was set to before the call.
C12_ExplicitLevelWins ==
    \A i \in 1..Len(calls) :
        LET c == calls[i]
            o == origin[c.node]
        IN  (o.kind = "new" /\ "level" \in DOMAIN o.options /\ o.options.level \in LogLevel)
                => /\ c.constructed <=> c.level >= o.options.level
                   /\ c.constructed => InvokedEachOnce(c)
                   /\ ~c.constructed => c.invoked = <<>>

\* error() and warn() on a logger constructed with level ERROR, after the
\* global level was set to TRACE: the explicit level decides
C12_Witness ==
    \E i \in 1..Len(calls) :
        LET c == calls[i]
            o == origin[c.node]
        IN  /\ "level" \in DOMAIN o.options
            /\ o.options.level = ERROR
            /\ c.global = TRACE
            /\ c.level = WARN
            /\ ~c.constructed
            /\ c.transports # <<>>

\* C13: child option merge. The options of parent.child(scope, override) are
\* those of the parent with every key of override replaced by the value in
\* override: the child filters against override.level when given, and its
\* entries carry override.metadata alone when given, else what the parent has.
C13_ChildOptionMerge ==
    /\ \A n \in 1..Len(loggers) :
          LET p == loggers[origin[n].parent].options
              o == origin[n].options
              c == loggers[n].options
          IN  origin[n].kind = "child" =>
                  /\ DOMAIN c = (DOMAIN p) \cup (DOMAIN o)
                  /\ \A k \in DOMAIN o : c[k] = o[k]
                  /\ \A k \in (DOMAIN p) \ (DOMAIN o) : c[k] = p[k]
    /\ \A i \in 1..Len(calls) :
          LET n == calls[i].node
              p == loggers[origin[n].parent].options
              o == origin[n].options
              level == IF "level" \in DOMAIN o THEN o.level ELSE p.level
          IN  origin[n].kind = "child" =>
                  /\ calls[i].constructed <=> calls[i].level >= level
                  /\ calls[i].constructed =>
                        calls[i].entry.metadata =
                            IF "metadata" \in DOMAIN o THEN o.metadata ELSE GetMetadata(p)

\* a parent with metadata {a: 1, b: 2}: its child with override metadata
\* {b: 3, c: 4} logged an entry with {b: 3, c: 4}, its child with override
\* level ERROR keeps the metadata of the parent and suppresses info()
C13_Witness ==
    /\ \E i \in 1..Len(calls) :
          LET n == calls[i].node
          IN  /\ origin[n].kind = "child"
              /\ GetMetadata(loggers[origin[n].parent].options) = Meta([a |-> 1, b |-> 2])
              /\ \/ /\ origin[n].options = [metadata |-> Meta([b |-> 3, c |-> 4])]
                    /\ calls[i].invoked # <<>>
                    /\ calls[i].invoked[1].entry.metadata = Meta([b |-> 3, c |-> 4])
                 \/ /\ origin[n].options = [level |-> ERROR]
                    /\ loggers[n].options.level = ERROR
                    /\ GetMetadata(loggers[n].options) = Meta([a |-> 1, b |-> 2])
                    /\ ~calls[i].constructed
    /\ \E n \in 1..Len(loggers), m \in 1..Len(loggers) :
          /\ origin[n].kind = "child" /\ origin[m].kind = "child"
          /\ origin[n].parent = origin[m].parent
          /\ origin[n].options = [metadata |-> Meta([b |-> 3, c |-> 4])]
          /\ origin[m].options = [level |-> ERROR]

\* the number of positions of the sequence that hold x
Occurrences(seq, x) == Cardinality({j \in 1..Len(seq) : seq[j] = x})

\* the transports call c invoked, in invocation order
InvokedTransports(c) == [j \in 1..Len(c.invoked) |-> c.invoked[j].transport]

\* C14: addTransport(t) appends without deduplication. The sequence after the
\* call is the sequence before followed by t, and a logging call that passes
\* the filter invokes a transport as many times as it is attached.
C14_AddTransportAppends ==
    /\ lastOp.op = "add" =>
          LET now == TransportsOf(lastOp.node)
          IN  /\ Len(now) = Len(lastOp.before) + 1
              /\ now[Len(now)] = lastOp.transport
              /\ \A j \in 1..Len(lastOp.before) : now[j] = lastOp.before[j]
    /\ \A i \in 1..Len(calls) :
          LET c == calls[i]
          IN  c.constructed =>
                  /\ \A t \in Transports :
                        Occurrences(InvokedTransports(c), t) = Occurrences(c.transports, t)
                  /\ (c.after.op = "add" /\ c.after.node = c.node) =>
                        Occurrences(InvokedTransports(c), c.after.transport)
                            = Occurrences(c.after.before, c.after.transport) + 1

\* a transport was attached to a list that held it already, and the next
\* logging call invoked it twice
C14_Witness ==
    \E i \in 1..Len(calls) :
        LET c == calls[i]
        IN  /\ c.after.op = "add"
            /\ Occurrences(c.after.before, c.after.transport) = 1
            /\ Occurrences(InvokedTransports(c), c.after.transport) = 2
            /\ c.transports = Append(c.after.before, c.after.transport)

\* C15: removeTransport(t) removes exactly the first occurrence of t and keeps
\* every other element, later occurrences of t included, in order; when t is
\* not attached the sequence stays as it is.
C15_RemoveFirstOccurrence ==
    lastOp.op = "remove" =>
        LET old == lastOp.before
            now == TransportsOf(lastOp.node)
            t == lastOp.transport
        IN  IF \E i \in 1..Len(old) : old[i] = t
            THEN \E i \in 1..Len(old) :
                    /\ old[i] = t
                    /\ \A j \in 1..(i - 1) : old[j] # t
                    /\ Len(now) = Len(old) - 1
                    /\ \A j \in 1..Len(now) : now[j] = IF j < i THEN old[j] ELSE old[j + 1]
            ELSE now = old

\* the first of two occurrences was removed from a list with another
\* transport between them: the later occurrence stays, behind that transport
C15_Witness ==
    /\ lastOp.op = "remove"
    /\ lastOp.before = <<ConsoleTransport(1), SyncTransport, ConsoleTransport(1)>>
    /\ lastOp.transport = ConsoleTransport(1)
    /\ TransportsOf(lastOp.node) = <<SyncTransport, ConsoleTransport(1)>>

\* C16: clearTransports() empties the transport sequence. After it, called on
\* a list of any length, the empty one included, the sequence of the logger
\* is empty and a severity call invokes no transport, lets no exception
\* escape and reports nothing.
C16_ClearEmpties ==
    /\ lastOp.op = "clear" => TransportsOf(lastOp.node) = <<>>
    /\ \A i \in 1..Len(calls) :
          (calls[i].after.op = "clear" /\ calls[i].after.node = calls[i].node) =>
              /\ calls[i].transports = <<>>
              /\ calls[i].invoked = <<>>
              /\ ~calls[i].escaped
              /\ calls[i].returned
              /\ \A k \in 1..Len(diag) : diag[k].call # i

\* clearTransports() was called on the list it had emptied before, and the
\* call that followed passed the filter and invoked nothing
C16_Witness ==
    \E i \in 1..Len(calls) :
        /\ calls[i].after.op = "clear"
        /\ calls[i].after.before = <<>>
        /\ Len(arrays) >= 3
        /\ calls[i].constructed
        /\ calls[i].invoked = <<>>

\* C17: dispatch ordering. The transport invocations of one logger are ordered
\* by the issuance order of the calls and, within a call, by attachment order:
\* a call has invoked its transports first to last before the next call is
\* issued, and the entries a transport receives are in issuance order.
C17_DispatchOrdering ==
    /\ \A i \in 1..Len(calls) :
          LET c == calls[i]
          IN  c.constructed =>
                  /\ c.returned
                  /\ Len(c.invoked) = Len(c.transports)
                  /\ \A j \in 1..Len(c.invoked) :
                        /\ c.invoked[j].transport = c.transports[j]
                        /\ c.invoked[j].entry.message = c.message
                        /\ c.invoked[j].entry.timestamp = c.entry.timestamp
    /\ \A i \in 1..Len(calls), k \in 1..Len(calls) :
          (i < k /\ calls[i].node = calls[k].node
                 /\ calls[i].constructed /\ calls[k].constructed) =>
              \A j \in 1..Len(calls[i].invoked), h \in 1..Len(calls[k].invoked) :
                  calls[i].invoked[j].entry.timestamp < calls[k].invoked[h].entry.timestamp

\* two emitted calls "x" then "y": the first reached the console transport
\* and then a second transport, the second call three transports
C17_Witness ==
    \E i \in 1..Len(calls), k \in 1..Len(calls) :
        /\ i < k
        /\ calls[i].message = "x" /\ calls[k].message = "y"
        /\ InvokedTransports(calls[i]) = <<ConsoleTransport(1), AsyncTransport>>
        /\ InvokedTransports(calls[k]) = <<ConsoleTransport(1), AsyncTransport, SyncTransport>>
        /\ calls[k].invoked[3].entry.message = "y"

\* C18: global level registry lifecycle. The registry holds INFO initially;
\* after setGlobalLevel(l), getGlobalLevel() returns l; no other operation
\* (constructor, child, withMetadata, addTransport, removeTransport,
\* clearTransports, a logging call) changes what getGlobalLevel() returns.
C18_GlobalLevelLifecycle ==
    /\ GetGlobalLevel = INFO
    /\ [][/\ \A l \in LogLevel : SetGlobalLevel(l) => GetGlobalLevel' = l
          /\ (~ \E l \in LogLevel : SetGlobalLevel(l)) => GetGlobalLevel' = GetGlobalLevel]_vars

\* the level was set to TRACE after the first logger was constructed, and it
\* is still TRACE after a derivation, a list operation and a logging call
C18_Witness ==
    /\ GetGlobalLevel = TRACE
    /\ Len(loggers) >= 2
    /\ loggers[1].options.level = INFO
    /\ loggers[2].options.level = INFO
    /\ origin[2].kind # "new"
    /\ mutations >= 1
    /\ \E i \in 1..Len(calls) : calls[i].global = TRACE /\ calls[i].constructed

\* the string is, whatever its case, one of the seven level names
NamesALevel(s) == s # NoEnv /\ ToUpperCase(s) \in DOMAIN LogLevelByName

\* the level a logger constructed with the given options has when LOG_LEVEL
\* is unset: the explicit one, else the global level
LevelWithoutEnv(options) ==
    IF "level" \in DOMAIN options THEN options.level ELSE globalLevel

\* C19: unrecognized environment level strings are ignored. A logger
\* constructed while LOG_LEVEL is a string that is not one of the seven level
\* names in any case, "0" and "6" included, has the options.level it would
\* have with LOG_LEVEL unset, and it filters accordingly.
C19_UnrecognizedEnvLevelIgnored ==
    /\ \A n \in 1..Len(loggers) :
          (origin[n].kind = "new" /\ ~NamesALevel(origin[n].env.LOG_LEVEL)) =>
              loggers[n].options.level = LevelWithoutEnv(origin[n].options)
    /\ \A i \in 1..Len(calls) :
          LET n == calls[i].node
          IN  (origin[n].kind = "new" /\ ~NamesALevel(origin[n].env.LOG_LEVEL)) =>
                  (calls[i].constructed <=> calls[i].level >= LevelWithoutEnv(origin[n].options))

\* the pieces of the text the default console transport of the logger of
\* call i wrote for that call; empty when it was not invoked
ConsoleText(i) ==
    LET c == calls[i]
    IN  IF \E j \in 1..Len(c.invoked) : c.invoked[j].transport = ConsoleTransport(c.node)
        THEN ConsoleTransportLog(c.entry, <<>>).text
        ELSE <<>>

\* C20: the colourize option controls the colour of the output. What a logger
\* whose options.colourize is false writes through its default console
\* transport holds no ANSI code, and with options.timestamp false it holds no
\* timestamp.
C20_ColourizeControlsOutput ==
    \A i \in 1..Len(calls) :
        LET options == loggers[calls[i].node].options
            text == ConsoleText(i)
        IN  /\ ~options.colourize => \A j \in 1..Len(text) : text[j] \notin AnsiCodes
            /\ ~options.timestamp => \A j \in 1..Len(text) : text[j] # "timestamp"

\* C21: entry construction. For every call that passes the filter each
\* attached transport receives an entry with the level of the method called,
\* the given message, the given extra arguments in order, the scope of the
\* logger and its options.metadata; all transports of a call receive the same
\* content.
C21_EntryConstruction ==
    \A i \in 1..Len(calls) :
        LET c == calls[i]
        IN  c.constructed =>
                \A j \in 1..Len(c.invoked) :
                    LET e == c.invoked[j].entry
                    IN  /\ e.level = c.level
                        /\ e.message = c.message
                        /\ e.args = c.args
                        /\ e.scope = loggers[c.node].scope
                        /\ e.metadata = GetMetadata(loggers[c.node].options)
                        /\ e = c.invoked[1].entry

\* error("y", 2, 1, 2) on a logger with metadata reached three transports
\* with the same entry
C21_Witness ==
    \E i \in 1..Len(calls) :
        /\ Len(calls[i].invoked) = 3
        /\ calls[i].invoked[3].entry.args = <<2, 1, 2>>
        /\ calls[i].invoked[3].entry.level = ERROR
        /\ calls[i].invoked[3].entry.message = "y"
        /\ calls[i].invoked[3].entry.scope = <<"app">>
        /\ calls[i].invoked[3].entry.metadata = Meta([a |-> 1, b |-> 2])
        /\ calls[i].invoked[1].entry = calls[i].invoked[3].entry

\* one of the two loggers was derived from the other by child() or
\* withMetadata()
DerivedPair(n, m) ==
    \/ origin[n].kind # "new" /\ origin[n].parent = m
    \/ origin[m].kind # "new" /\ origin[m].parent = n

\* C22: no shared mutable state between derived nodes. A write to the scope
\* sequence or to the metadata mapping reachable through one logger changes
\* neither the scope nor the options of the logger it was derived from or of
\* a logger derived from it.
C22_NoSharedMutableState ==
    [][\A n \in 1..Len(loggers), m \in 1..Len(loggers) :
          (DerivedPair(n, m) /\ (MutateMetadata(n, [z |-> 9]) \/ MutateScope(n, "zz")))
              => loggers'[m] = loggers[m]]_vars

\* C23: entry scope is copied on hand-off. A push onto entry.scope after the
\* hand-off changes the scope of no logger; an entry recorded as received
\* changes only by a write of a holder, to its scope or to its metadata
\* mapping, and its scope only by a push onto that scope; and every entry
\* constructed later carries the scope of its logger.
C23_EntryScopeCopied ==
    [][/\ \A i \in 1..Len(calls) : MutateEntryScope(i, "zz") => loggers' = loggers
       /\ \A i \in 1..Len(calls) :
             /\ calls'[i] # calls[i] =>
                   \/ MutateEntryScope(i, "zz")
                   \/ \E n \in 1..Len(loggers) : MutateMetadata(n, [z |-> 9])
             /\ (calls[i].constructed /\ calls'[i].entry.scope # calls[i].entry.scope) =>
                   MutateEntryScope(i, "zz")
       /\ (Len(calls') = Len(calls) + 1 /\ calls'[Len(calls')].constructed) =>
             /\ calls'[Len(calls')].entry.scope = loggers[calls'[Len(calls')].node].scope
             /\ calls'[Len(calls')].entry.scopeCopied]_vars

\* the scope of the entry of the first call was pushed onto; the logger, a
\* second entry of the same logger and an entry of a child show nothing of it
C23_Witness ==
    \E i \in 1..Len(calls), k \in 1..Len(calls) :
        /\ i < k
        /\ calls[i].entry.scope = <<"app", "zz">>
        /\ calls[i].invoked[1].entry.scope = <<"app", "zz">>
        /\ loggers[calls[i].node].scope = <<"app">>
        /\ writes >= 1
        /\ \/ calls[k].node = calls[i].node /\ calls[k].entry.scope = <<"app">>
           \/ /\ origin[calls[k].node].kind = "child"
              /\ origin[calls[k].node].parent = calls[i].node
              /\ calls[k].entry.scope = <<"app", "api">>

\* the FileTransport was invoked in call i
FileInvoked(c) ==
    \E j \in 1..Len(c.invoked) : c.invoked[j].transport = FileTransport

\* the text has the key
HasKey(line, key) == \E j \in 1..Len(line.keys) : line.keys[j] = key

\* C24: absent and empty metadata are equivalent downstream. The line
\* JsonFormatter.format writes for an entry has a "metadata" key exactly when
\* the metadata mapping of the entry has at least one key and an "args" key
\* exactly when args is non-empty; for an entry whose metadata is undefined or
\* the empty mapping the line is the same: the four fixed keys with the
\* values of the entry, then args if any, and nothing of metadata.
C24_AbsentAndEmptyMetadataEquivalent ==
    [][(Len(calls') = Len(calls) + 1 /\ FileInvoked(calls'[Len(calls')])) =>
          LET e == calls'[Len(calls')].entry
              content == files'[fileTransport.filename]
              line == content[Len(content)]
              filled == e.metadata.def /\ DOMAIN e.metadata.map # {}
          IN  /\ HasKey(line, "metadata") <=> filled
              /\ HasKey(line, "args") <=> Len(e.args) > 0
              /\ filled => line.metadata = e.metadata.map
              /\ Len(e.args) > 0 => line.args = e.args
              /\ ~filled =>
                    line = [keys |-> <<"timestamp", "level", "scope", "message">>
                                       \o (IF Len(e.args) > 0 THEN <<"args">> ELSE <<>>),
                            timestamp |-> e.timestamp, level |-> e.level,
                            scope |-> e.scope, message |-> e.message,
                            metadata |-> EmptyObject, args |-> e.args]]_vars

\* a logger whose metadata is the empty mapping wrote a line with extra
\* arguments to the file: it has the args key and no metadata key
C24_Witness ==
    /\ Len(loggers) = 1
    /\ GetMetadata(loggers[1].options) = Meta(EmptyObject)
    /\ fileTransport.constructed
    /\ fileTransport.filename \in DOMAIN files
    /\ \E j \in 1..Len(files[fileTransport.filename]) :
          files[fileTransport.filename][j].keys =
              <<"timestamp", "level", "scope", "message", "args">>
    /\ \E i \in 1..Len(calls) :
          FileInvoked(calls[i]) /\ calls[i].entry.metadata = Meta(EmptyObject)

\* the lines handed to the FileTransport so far, in order
RECURSIVE WrittenUpTo(_)
WrittenUpTo(i) ==
    IF i = 0 THEN <<>>
    ELSE WrittenUpTo(i - 1) \o
            (IF FileInvoked(calls[i]) THEN <<JsonFormat(calls[i].entry)>> ELSE <<>>)

\* the content of the backups filename.k .. filename.1 that exist, oldest first
RECURSIVE BackupContent(_)
BackupContent(k) ==
    IF k = 0 THEN <<>>
    ELSE (IF Rotated(fileTransport.filename, k) \in DOMAIN files
          THEN files[Rotated(fileTransport.filename, k)] ELSE <<>>)
         \o BackupContent(k - 1)

\* C26: file rotation retention. With maxSize set and maxFiles = N the files
\* are filename and backups filename.1 .. filename.k for some k <= N, together
\* they hold the most recent lines written, oldest in the highest backup, and
\* lines have been discarded only when all N backups exist.
C26_RotationKeepsNBackups ==
    (fileTransport.constructed /\ fileTransport.maxSize # 0) =>
        LET name == fileTransport.filename
            N == fileTransport.maxFiles
            backups == {k \in 1..(N + 1) : Rotated(name, k) \in DOMAIN files}
            kept == BackupContent(N + 1) \o files[name]
            written == WrittenUpTo(Len(calls))
        IN  /\ \E k \in 0..N : backups = 1..k
            /\ Len(kept) <= Len(written)
            /\ kept = SubSeq(written, Len(written) - Len(kept) + 1, Len(written))
            /\ Len(kept) < Len(written) => backups = 1..N

\* the place of a scope name among the names formatted with colour, in order
\* of first formatting
SeenAt(name) == CHOOSE k \in 1..Len(seen) : seen[k] = name

\* the text ConsoleFormatter.format returns when the process formatted nothing
\* before, and the object JsonFormatter.format writes
FreshText(f) ==
    IF f.formatter = "JsonFormatter" THEN JsonFormat(f.entry)
    ELSE Format(f.options, f.entry, <<>>).text

\* C25 as stated: formatter determinism and purity. For every formatter, the
\* text format returns for an entry is the text it returns for that entry
\* when nothing was formatted before, whatever entries and scopes were
\* formatted before by this or any other instance, and formatting leaves the
\* state a later format call reads (the static scopeColourMap) as it was.
C25_FormatIndependentOfHistory ==
    /\ scopeColourMap = <<>>
    /\ lastFormat.called =>
          /\ ~lastFormat.threw
          /\ lastFormat.text = FreshText(lastFormat)

\* the text JsonFormatter.format returned is determined by the entry alone:
\* timestamp, level, scope and message, the metadata when it has a key and
\* the args when there is one
JsonTextOfEntry ==
    LET e == lastFormat.entry
        hasMetadata == e.metadata.def /\ DOMAIN e.metadata.map # {}
        hasArgs == e.args # <<>>
        text == lastFormat.text
    IN  /\ ~lastFormat.threw
        /\ text.keys = <<"timestamp", "level", "scope", "message">>
                         \o (IF hasMetadata THEN <<"metadata">> ELSE <<>>)
                         \o (IF hasArgs THEN <<"args">> ELSE <<>>)
        /\ text.timestamp = e.timestamp
        /\ text.level = e.level
        /\ text.scope = e.scope
        /\ text.message = e.message
        /\ hasMetadata => text.metadata = e.metadata.map
        /\ hasArgs => text.args = e.args

\* the text ConsoleFormatter.format returned is determined by the options of
\* the instance, the entry and the place of the scope name among the names
\* formatted with colour: the timestamp when the instance shows it, the
\* level, the scope when the instance shows it and the entry has one, and the
\* message; a colourizing instance dims the timestamp, gives the level its
\* level colour and the scope the palette colour of the place of its name
ConsoleTextOfEntry ==
    LET o == lastFormat.options
        e == lastFormat.entry
        name == Join(e.scope)
        label == "[" \o LevelNamePadEnd(e.level) \o "]"
        timestampPiece ==
            IF ~o.timestamp THEN <<>>
            ELSE IF o.colourize THEN <<"DIM", "timestamp", "RESET">>
            ELSE <<"timestamp">>
        levelPiece ==
            IF o.colourize THEN GetLevelColour(e.level) \o <<label, "RESET">>
            ELSE <<label>>
        scopePiece ==
            IF ~o.showScope \/ e.scope = <<>> THEN <<>>
            ELSE IF o.colourize
            THEN <<SCOPE_COLOURS[((SeenAt(name) - 1) % Len(SCOPE_COLOURS)) + 1],
                   "[" \o name \o "]", "RESET">>
            ELSE <<"[" \o name \o "]">>
    IN  /\ ~lastFormat.threw
        /\ lastFormat.text = timestampPiece \o levelPiece \o scopePiece \o <<e.message>>

\* the static map holds exactly the names formatted with colour, the k-th of
\* them in the k-th colour of the palette, cyclically
MapFollowsColourOrder ==
    /\ DOMAIN scopeColourMap = {seen[k] : k \in 1..Len(seen)}
    /\ \A k \in 1..Len(seen) :
          scopeColourMap[seen[k]] = SCOPE_COLOURS[((k - 1) % Len(SCOPE_COLOURS)) + 1]

\* a step that changes the static map is a format call of a ConsoleFormatter
\* instance that colourizes and shows the scope, on an entry with a scope
\* whose name the map did not hold; it adds that name and changes no other
FormatOnlyAddsNewName ==
    scopeColourMap' # scopeColourMap =>
        LET f == lastFormat'
            name == Join(f.entry.scope)
        IN  /\ f.formatter = "ConsoleFormatter"
            /\ f.options.colourize /\ f.options.showScope
            /\ f.entry.scope # <<>>
            /\ name \notin DOMAIN scopeColourMap
            /\ DOMAIN scopeColourMap' = (DOMAIN scopeColourMap) \cup {name}
            /\ \A k \in DOMAIN scopeColourMap : scopeColourMap'[k] = scopeColourMap[k]

\* C25, amended: the text JsonFormatter.format returns is determined by the
\* entry alone and the call changes no state. The text ConsoleFormatter.format
\* returns is determined by the options of the instance, the content of the
\* entry and the order in which scope names were first formatted with colour
\* in the process, by any instance: a scope name has the k-th palette colour
\* (cyclically) when it was the k-th name so formatted, and keeps it. The one
\* side effect of format is that an instance with colourize and showScope
\* enabled, formatting an entry with a non-empty scope whose name the static
\* map does not hold, adds the name to the map; every other call of format
\* leaves the map as it was.
C25_FormatDeterminedByOptionsEntryAndColourOrder ==
    /\ [](/\ MapFollowsColourOrder
          /\ lastFormat.called /\ lastFormat.formatter = "JsonFormatter" => JsonTextOfEntry
          /\ lastFormat.called /\ lastFormat.formatter = "ConsoleFormatter" =>
                ConsoleTextOfEntry)
    /\ [][FormatOnlyAddsNewName]_vars

\* "app" was formatted with colour after another scope name and the default
\* formatter returned its text with the scope in the second colour of the
\* palette, where the same entry formatted first has it in the first colour
C25_Witness ==
    /\ Len(seen) >= 2
    /\ seen[2] = "app"
    /\ lastFormat.called
    /\ lastFormat.formatter = "ConsoleFormatter"
    /\ lastFormat.options = ConsoleFormatterOptions
    /\ lastFormat.scope = <<"app">>
    /\ lastFormat.text[Len(lastFormat.text) - 3] = "FG_GREEN"
    /\ FreshText(lastFormat)[Len(lastFormat.text) - 3] = "FG_RED"

\* C27: construction-time misconfiguration fails fast without side effects.
\* While the host has no window no browser transport object comes to exist;
\* a step in which a constructor throws happens in a host without window,
\* hands its caller one error naming the class, and leaves every logger (its
\* scope, options and transport sequence) and the transports constructed
\* before as they were.
C27_FailedConstructionHasNoEffect ==
    [][/\ ~window' => browserTransports' = browserTransports
       /\ thrown' # thrown =>
             /\ ~window
             /\ Len(thrown') = Len(thrown) + 1
             /\ SubSeq(thrown', 1, Len(thrown)) = thrown
             /\ thrown'[Len(thrown')] \in
                   {"BrowserFileTransport can only be used in browser environments",
                    "BrowserStorageTransport can only be used in browser environments"}
             /\ browserTransports' = browserTransports
             /\ loggers' = loggers
             /\ arrays' = arrays]_vars

\* both constructors threw in a host without window while a logger with a
\* transport added and a child of it exist; no browser transport exists
C27_Witness ==
    /\ ~window
    /\ \E i \in 1..Len(thrown), j \in 1..Len(thrown) :
          /\ thrown[i] = "BrowserFileTransport can only be used in browser environments"
          /\ thrown[j] = "BrowserStorageTransport can only be used in browser environments"
    /\ browserTransports = <<>>
    /\ Len(loggers) = 2
    /\ origin[2].kind = "child"
    /\ TransportsOf(1) = <<ConsoleTransport(1), SyncTransport>>

\* C28: default transport at construction. Immediately after new Logger(...)
\* the transport sequence of the new node has exactly one element, a
\* ConsoleTransport that did not exist before the construction and is in the
\* sequence of no other node, and the sequence is a container of its own.
C28_DefaultConsoleTransport ==
    [][(Len(loggers') = Len(loggers) + 1 /\ origin'[Len(loggers')].kind = "new") =>
          LET k == Len(loggers')
              list == arrays'[loggers'[k].transports]
          IN  /\ Len(list) = 1
              /\ list[1] > ConsoleBase
              /\ list[1] \notin Transports
              /\ \A r \in 1..Len(arrays), j \in 1..MaxTransports :
                    j <= Len(arrays[r]) => arrays[r][j] # list[1]
              /\ \A m \in 1..Len(loggers) :
                    /\ loggers'[m].transports # loggers'[k].transports
                    /\ \A j \in 1..Len(arrays'[loggers'[m].transports]) :
                          arrays'[loggers'[m].transports][j] # list[1]]_vars

\* a second logger was created with new Logger after the first had a transport
\* added and a child derived: each of the two has its own ConsoleTransport
C28_Witness ==
    /\ Len(loggers) = 3
    /\ origin[1].kind = "new"
    /\ origin[2].kind = "child"
    /\ origin[3].kind = "new"
    /\ TransportsOf(1) = <<ConsoleTransport(1), SyncTransport>>
    /\ TransportsOf(2) = <<ConsoleTransport(1), SyncTransport>>
    /\ TransportsOf(3) = <<ConsoleTransport(3)>>

\* the level LOG_LEVEL named when logger n was constructed
EnvLevelAtConstruction(n) == LogLevelByName[ToUpperCase(origin[n].env.LOG_LEVEL)]

\* C29: environment level override precedence. Every logger constructed while
\* LOG_LEVEL named a level in any case (by new Logger, child() or
\* withMetadata(), with or without an explicit level) has that level as its
\* effective level and filters by it, whatever LOG_LEVEL is changed to after
\* the construction.
C29_EnvLevelOverrides ==
    /\ \A n \in 1..Len(loggers) :
          NamesALevel(origin[n].env.LOG_LEVEL) =>
              EffectiveLevel(loggers[n].options) = EnvLevelAtConstruction(n)
    /\ \A i \in 1..Len(calls) :
          NamesALevel(origin[calls[i].node].env.LOG_LEVEL) =>
              (calls[i].constructed <=>
                  calls[i].level >= EnvLevelAtConstruction(calls[i].node))

\* a child given the level TRACE while LOG_LEVEL was "debug" has the level
\* DEBUG; LOG_LEVEL was set to "OFF" afterwards and the child still passed a
\* warn call
C29_Witness ==
    /\ Len(loggers) = 2
    /\ origin[2].kind = "child"
    /\ origin[2].options = [level |-> TRACE]
    /\ origin[2].env.LOG_LEVEL = "debug"
    /\ loggers[2].options.level = DEBUG
    /\ env.LOG_LEVEL = "OFF"
    /\ \E i \in 1..Len(calls) :
          calls[i].node = 2 /\ calls[i].level = WARN /\ calls[i].constructed

\* C30: derivation leaves the receiver unchanged. A child() or withMetadata()
\* step changes the scope, the options and the transport sequence of no
\* existing logger, so the entry the receiver would build is the same before
\* and after; the logger withMetadata() yields has the scope and the level of
\* the receiver; and a logger made with new Logger logs, after any
\* derivations from it, entries with the scope and the metadata it was
\* constructed with.
C30_DerivationLeavesReceiverUnchanged ==
    [][/\ (Len(loggers') = Len(loggers) + 1 /\ origin'[Len(loggers')].kind # "new") =>
             LET k == Len(loggers')
                 p == origin'[k].parent
             IN  /\ \A m \in 1..Len(loggers) : loggers'[m] = loggers[m]
                 /\ \A r \in 1..Len(arrays) : arrays'[r] = arrays[r]
                 /\ MakeEntry(loggers'[p], INFO, "x", <<>>).scope =
                        MakeEntry(loggers[p], INFO, "x", <<>>).scope
                 /\ MakeEntry(loggers'[p], INFO, "x", <<>>).metadata =
                        MakeEntry(loggers[p], INFO, "x", <<>>).metadata
                 /\ origin'[k].kind = "withMetadata" =>
                       /\ loggers'[k].scope = loggers[p].scope
                       /\ loggers'[k].options.level = loggers[p].options.level
                       /\ EffectiveLevel(loggers'[k].options) =
                              EffectiveLevel(loggers[p].options)
       /\ (Len(calls') = Len(calls) + 1 /\ calls'[Len(calls')].constructed
             /\ origin[calls'[Len(calls')].node].kind = "new") =>
             LET c == calls'[Len(calls')]
             IN  /\ c.entry.scope = ScopeOf(origin[c.node].scopeArg)
                 /\ c.entry.metadata = GetMetadata(origin[c.node].options)]_vars

\* withMetadata() on a root with metadata and the level ERROR, which had a
\* transport added, gave a logger with the scope and the level of the root; a
\* child was derived too, and the root logged with the scope and metadata of
\* its construction through both of its transports
C30_Witness ==
    /\ Len(loggers) = 3
    /\ origin[1].options = [metadata |-> Meta([a |-> 1]), level |-> ERROR]
    /\ \E k \in 2..3 :
          /\ origin[k].kind = "withMetadata" /\ origin[k].parent = 1
          /\ loggers[k].scope = <<"app">>
          /\ loggers[k].options.level = ERROR
          /\ origin[5 - k].kind = "child" /\ origin[5 - k].parent = 1
    /\ loggers[1].options.level = ERROR
    /\ loggers[1].options.metadata = Meta([a |-> 1])
    /\ \E i \in 1..Len(calls) :
          /\ calls[i].node = 1
          /\ calls[i].entry.scope = <<"app">>
          /\ calls[i].entry.metadata = Meta([a |-> 1])

\* logger n is a child derived without a level override while LOG_LEVEL was
\* unset
PlainChild(n) ==
    /\ origin[n].kind = "child"
    /\ "level" \notin DOMAIN origin[n].options
    /\ origin[n].env.LOG_LEVEL = NoEnv

\* C31: parent and child agree on filtering. In every state, whatever the
\* global level was set to, a child derived without a level override passes
\* a severity exactly when its parent passes it; and the decision of every
\* call such a child made is the one its parent makes for that severity at
\* the global level of the call.
C31_ParentAndChildAgree ==
    /\ \A n \in 1..Len(loggers) :
          PlainChild(n) =>
              \A l \in Severities :
                  ShouldLog(loggers[n].options, l) =
                      ShouldLog(loggers[origin[n].parent].options, l)
    /\ \A i \in 1..Len(calls) :
          PlainChild(calls[i].node) =>
              LET level == loggers[origin[calls[i].node].parent].options.level
              IN  calls[i].constructed <=>
                      GreaterOrEqual(calls[i].level,
                                     IF level # Undefined THEN level ELSE calls[i].global)

\* a child was derived without an override after the global level was set to
\* TRACE: like its parent, constructed at INFO, it suppressed a debug call
C31_Witness ==
    /\ Len(loggers) >= 2
    /\ PlainChild(2)
    /\ origin[1].options = EmptyObject
    /\ loggers[1].options.level = INFO
    /\ loggers[2].options.level = INFO
    /\ \E i \in 1..Len(calls) :
          /\ calls[i].node = 2
          /\ calls[i].level = DEBUG
          /\ calls[i].global = TRACE
          /\ ~calls[i].constructed

\* C32: dispatch is robust to re-entrant list mutation. Every logging call
\* that passes the filter returns, and the transports invoked for it are the
\* transports attached when the call began, each once and in order of
\* attachment, whatever the transports did to the list of the logger while
\* they were invoked.
C32_DispatchRobustToReentrantMutation ==
    \A i \in 1..Len(calls) :
        calls[i].constructed =>
            /\ calls[i].returned
            /\ InvokedTransports(calls[i]) = calls[i].transports

\* the keys of a Storage object that start with the prefix of a transport
KeysOf(transport, store) == {k \in DOMAIN store : StartsWith(k, transport.keyPrefix)}

\* C33: BrowserStorageTransport retention bound. After every log() call at
\* most maxEntries keys that start with the transport's prefix remain in
\* its storage, every key removed by the call is smaller than every key the
\* call left, the key just written is among those left whenever maxEntries
\* is at least 1 and the write succeeded, and a failed write is reported on
\* console.warn and does not propagate out of log().
C33_StorageRetention ==
    [][stored' # stored =>
          LET c == stored'[Len(stored')]
              transport == browserTransports[c.transport]
              before == KeysOf(transport, storage[transport.storage])
              after == KeysOf(transport, storage'[transport.storage])
              candidates == IF c.failed THEN before ELSE before \cup {c.key}
          IN  /\ Cardinality(after) <= transport.maxEntries
              /\ after \subseteq candidates
              /\ \A removed \in candidates \ after, kept \in after :
                    StringLess(removed, kept)
              /\ (~c.failed /\ transport.maxEntries >= 1) => c.key \in after
              /\ ~c.threw
              /\ c.failed => /\ Len(warned') = Len(warned) + 1
                             /\ storage' = storage]_vars

\* the last n elements of a sequence, or all of it
LastOf(seq, n) ==
    IF Len(seq) <= n THEN seq ELSE SubSeq(seq, Len(seq) - n + 1, Len(seq))

\* C34: BrowserFileTransport buffer bound. After any sequence of log() and
\* clearLogs() calls getLogCount() is at most maxLogs, the buffer is the
\* last min(n, maxLogs) of the n entries logged since the last clear, in
\* logging order, and two downloads triggered by log() calls of a transport
\* (not those the user made with downloadLogs()) are at least 100 log()
\* calls apart.
C34_BufferBoundAndDownloads ==
    /\ \A t \in 1..Len(browserTransports) :
          browserTransports[t].class = "BrowserFileTransport" =>
              /\ GetLogCount(browserTransports[t]) <= browserTransports[t].maxLogs
              /\ browserTransports[t].logs =
                    LastOf(buffered[t].sinceClear, browserTransports[t].maxLogs)
    /\ \A i \in 1..Len(downloads), j \in 1..Len(downloads) :
          (/\ i < j
           /\ downloads[i].transport = downloads[j].transport
           /\ ~downloads[i].manual
           /\ ~downloads[j].manual) =>
              downloads[j].call - downloads[i].call >= DownloadEvery

\* C35: scope colour assignment. The static map holds exactly the scope
\* names formatted with colourize enabled; the k-th of them in order of
\* first formatting (k from 0) has the colour SCOPE_COLOURS[k mod 12] in the
\* map ever after; the text a colourizing formatter instance returned for a
\* scope name has the scope in the colour the map holds for the name; and no
\* call of format threw.
C35_ScopeColourAssignment ==
    /\ DOMAIN scopeColourMap = {seen[k] : k \in 1..Len(seen)}
    /\ \A k \in 1..Len(seen) :
          scopeColourMap[seen[k]] = SCOPE_COLOURS[((k - 1) % 12) + 1]
    /\ lastFormat.called =>
          /\ ~lastFormat.threw
          /\ lastFormat.options.colourize =>
                /\ Join(lastFormat.scope) \in DOMAIN scopeColourMap
                /\ lastFormat.text[Len(lastFormat.text) - 3] =
                      scopeColourMap[Join(lastFormat.scope)]

\* fourteen scope names were formatted: the thirteenth has the first colour
\* of the palette again and the fourteenth the second, and the first name
\* was then formatted by an instance with other options, in the first colour
C35_Witness ==
    /\ Len(seen) = 14
    /\ scopeColourMap[seen[12]] = "FG_BRIGHT_CYAN"
    /\ scopeColourMap[seen[13]] = "FG_RED"
    /\ scopeColourMap[seen[14]] = "FG_GREEN"
    /\ lastFormat.called
    /\ ~lastFormat.options.timestamp
    /\ Join(lastFormat.scope) = seen[1]
    /\ lastFormat.text[Len(lastFormat.text) - 3] = "FG_RED"

====
